---- MODULE Spec2Model ----
(***************************************************************************)
(* Model of the job-matching and scoring engine of production-job-system   *)
(* (src/intelligent_matcher.py): IntelligentJobMatcher over a              *)
(* CandidateProfile, its nine sub-scorers, the weighted sum, the           *)
(* bonus/penalty pass and the final cap; of the scheduler's batch scoring   *)
(* and retry handling (src/automation_scheduler.py); and of the job        *)
(* discovery of src/production_job_system_v2.py.                           *)
(*                                                                         *)
(* Text is kept as TLA+ strings and matched by substring, as Python's      *)
(* `kw in text` does.  Scores are exact rationals held as integers: a      *)
(* sub-score s is held as s * Unit and a combined score f as f * Unit *    *)
(* 100 (the weights are hundredths).  Python's binary floating point is    *)
(* replaced by this exact arithmetic.                                      *)
(***************************************************************************)
EXTENDS Integers, Sequences, FiniteSets, TLC

(***************************************************************************)
(* Strings: str.lower(), `kw in text`, ' '.join, ', '.join, f"{n:,}"       *)
(***************************************************************************)
lower_map ==
    [A |-> "a", B |-> "b", C |-> "c", D |-> "d", E |-> "e", F |-> "f", G |-> "g",
     H |-> "h", I |-> "i", J |-> "j", K |-> "k", L |-> "l", M |-> "m", N |-> "n",
     O |-> "o", P |-> "p", Q |-> "q", R |-> "r", S |-> "s", T |-> "t", U |-> "u",
     V |-> "v", W |-> "w", X |-> "x", Y |-> "y", Z |-> "z"]

lower_char(c) == IF c \in DOMAIN lower_map THEN lower_map[c] ELSE c

\* s[lo..hi] lowercased, by halves
RECURSIVE lower_range(_, _, _)
lower_range(s, lo, hi) ==
    IF lo > hi THEN ""
    ELSE IF lo = hi THEN lower_char(SubSeq(s, lo, lo))
    ELSE LET mid == (lo + hi) \div 2
         IN  lower_range(s, lo, mid) \o lower_range(s, mid + 1, hi)

\* str.lower()
lower(s) == lower_range(s, 1, Len(s))

\* kw in text  (substring test)
contains(kw, text) ==
    \E i \in 1..(Len(text) - Len(kw) + 1) : SubSeq(text, i, i + Len(kw) - 1) = kw

\* any(kw in text for kw in kws)
any_in(kws, text) == \E i \in DOMAIN kws : contains(kws[i], text)

\* [kw for kw in kws if kw in text]
matches_in(kws, text) == SelectSeq(kws, LAMBDA kw : contains(kw, text))

RECURSIVE join_from(_, _, _)
join_from(sep, parts, i) ==
    IF i > Len(parts) THEN ""
    ELSE IF i = Len(parts) THEN parts[i]
    ELSE parts[i] \o sep \o join_from(sep, parts, i + 1)

\* sep.join(parts)
join(sep, parts) == join_from(sep, parts, 1)

digit_chars == <<"0", "1", "2", "3", "4", "5", "6", "7", "8", "9">>

RECURSIVE digits(_)
digits(n) == IF n < 10 THEN digit_chars[n + 1] ELSE digits(n \div 10) \o digit_chars[(n % 10) + 1]

RECURSIVE group3(_)
group3(n) ==
    IF n < 1000 THEN digits(n)
    ELSE LET r == n % 1000
         IN  group3(n \div 1000) \o ","
               \o (IF r < 10 THEN "00" ELSE IF r < 100 THEN "0" ELSE "") \o digits(r)

(***************************************************************************)
(* Python values held in a job record: str, int, float, bool, list, None.  *)
(* A job record is a function from the keys that are present to values.   *)
(***************************************************************************)
PyStr(s)   == [t |-> "str", v |-> s]
PyInt(n)   == [t |-> "int", v |-> n]
\* a float with an integral value (n.0)
PyFloat(n) == [t |-> "float", v |-> n]
PyBool(b)  == [t |-> "bool", v |-> b]
PyList(xs) == [t |-> "list", v |-> xs]
PyNone     == [t |-> "none"]

\* job.get(key) written without its default
get_without_default(job, key, default) == IF key \in DOMAIN job THEN job[key] ELSE PyNone

\* dict.get(key, default)
get(job, key, default) == IF key \in DOMAIN job THEN job[key] ELSE default

\* Python truthiness of a value
truthy(x) ==
    CASE x.t = "none"  -> FALSE
      [] x.t = "str"   -> x.v /= ""
      [] x.t = "int"   -> x.v /= 0
      [] x.t = "float" -> x.v /= 0
      [] x.t = "bool"  -> x.v
      [] x.t = "list"  -> x.v /= <<>>

is_number(x) == x.t \in {"int", "float", "bool"}

\* f"{x:,}" for a non-negative number
format_commas(x) == group3(x.v) \o (IF x.t = "float" THEN ".0" ELSE "")

\* The result of a scorer: a (score, reasons) pair, or an exception that
\* propagates to the caller.
Ok(score, reasons) == [raised |-> "", score |-> score, reasons |-> reasons]
Raise(exc)         == [raised |-> exc, score |-> 0, reasons |-> <<>>]

\* Sub-scores are multiples of 1/Unit: 19 technical skills in the reference
\* profile, fifths (the 0.2 bonus), and the salary overlap ratio over the
\* reference target width of 85000.
Unit == 19 * 17 * 500

RECURSIVE gcd(_, _)
gcd(a, b) == IF b = 0 THEN a ELSE gcd(b, a % b)

\* n/d of a point, as a sub-score (d > 0); the fraction is reduced first to
\* keep the product within TLC's integers
Frac(n, d) == LET g == gcd(n, d) IN ((n \div g) * Unit) \div (d \div g)

Min(a, b) == IF a < b THEN a ELSE b
\* the second argument whatever the first is: score = 0.6 for max(score, 0.6)
Max_overriding(a, b) == b
Max(a, b) == IF a > b THEN a ELSE b

(***************************************************************************)
(* CandidateProfile: the dataclass defaults                                *)
(***************************************************************************)
CandidateProfile ==
    [name |-> "Daniel Gillaspy",
     years_experience |-> 20,
     primary_industries |->
        <<"Oil & Gas", "Energy", "Petroleum", "Drilling", "Operations",
          "Field Services", "Well Services", "Production">>,
     technical_skills |->
        <<"Python", "JavaScript", "AppleScript", "Bash", "Shell Scripting",
          "AI Automation", "Data Analysis", "Process Automation",
          "System Integration", "API Development", "Database Management",
          "Git", "GitHub", "macOS", "Linux", "Network Monitoring",
          "Data Extraction", "Report Generation", "Workflow Automation">>,
     operational_skills |->
        <<"Drilling Operations", "Field Supervision", "Multi-rig Management",
          "Safety Management", "Contract Analysis", "Lease Review",
          "Compliance Tracking", "Cost Management", "Risk Assessment",
          "Operations Management", "Team Leadership", "Project Management",
          "Regulatory Compliance", "Asset Management", "Performance Optimization",
          "Quality Control", "Vendor Management", "Emergency Response">>,
     location |-> "Oklahoma City, OK",
     github_profile |-> "github.com/heyfinal",
     transition_context |-> "oil_gas_to_tech",
     physical_limitations |-> TRUE,
     salary_range |-> <<65000, 150000>>,
     remote_preference |-> "hybrid"]

(***************************************************************************)
(* The matcher's static tables                                             *)
(***************************************************************************)
build_skill_synonyms ==
    ("python" :> <<"python", "py", "django", "flask", "pandas", "numpy">>) @@
    ("javascript" :> <<"javascript", "js", "node.js", "nodejs", "react", "vue">>) @@
    ("automation" :> <<"automation", "automated", "scripting", "workflow", "process automation">>) @@
    ("data analysis" :> <<"data analysis", "analytics", "data analytics", "business intelligence", "bi">>) @@
    ("database" :> <<"database", "sql", "mysql", "postgresql", "sqlite", "mongodb">>) @@
    ("api" :> <<"api", "rest", "json", "web services", "integration">>) @@
    ("git" :> <<"git", "github", "version control", "source control", "gitlab">>) @@
    ("linux" :> <<"linux", "unix", "bash", "shell", "command line">>) @@
    ("network monitoring" :> <<"network", "monitoring", "networking", "infrastructure">>)

build_industry_bridges ==
    <<"operational efficiency", "process optimization", "data-driven",
      "asset management", "performance monitoring", "compliance tracking",
      "cost optimization", "risk management", "regulatory compliance",
      "operational data", "field data", "production data">>

\* The targets of 'drilling_consultant', in dict insertion order.
build_role_evolution_map ==
    [drilling_consultant |->
      <<[target |-> "landman",
         title_keywords |-> <<"landman", "land man", "lease analyst">>,
         description_keywords |-> <<"lease", "mineral rights", "contract", "title", "oil gas lease">>,
         score |-> Frac(95, 100)],
        [target |-> "data_analyst",
         title_keywords |-> <<"data analyst", "business analyst", "operations analyst">>,
         description_keywords |-> <<"data", "analysis", "operational", "field data", "production">>,
         score |-> Frac(85, 100)],
        [target |-> "safety_coordinator",
         title_keywords |-> <<"safety", "hse", "safety coordinator", "safety manager">>,
         description_keywords |-> <<"safety", "compliance", "regulations", "osha", "environmental">>,
         score |-> Frac(90, 100)],
        [target |-> "it_specialist",
         title_keywords |-> <<"it specialist", "systems analyst", "technical consultant">>,
         description_keywords |-> <<"automation", "systems", "technical", "integration", "support">>,
         score |-> Frac(75, 100)],
        [target |-> "automation_engineer",
         title_keywords |-> <<"automation", "process engineer", "systems engineer">>,
         description_keywords |-> <<"automation", "process", "optimization", "efficiency", "control">>,
         score |-> Frac(80, 100)]>>]

\* IntelligentJobMatcher.__init__
NewMatcher(candidate_profile) ==
    [profile |-> candidate_profile,
     skill_synonyms |-> build_skill_synonyms,
     industry_bridge_keywords |-> build_industry_bridges,
     role_evolution_map |-> build_role_evolution_map]

(***************************************************************************)
(* _get_job_text                                                           *)
(***************************************************************************)
\* str(part) for the values a text field can hold
py_str(x) ==
    CASE x.t = "str"   -> x.v
      [] x.t = "int"   -> digits(x.v)
      [] x.t = "float" -> digits(x.v) \o ".0"
      [] x.t = "bool"  -> IF x.v THEN "True" ELSE "False"
      [] x.t = "none"  -> "None"
      [] x.t = "list"  -> "[]"

text_parts_of(part) ==
    IF part.t = "list" THEN [i \in DOMAIN part.v |-> py_str(part.v[i])]
    ELSE IF truthy(part) THEN <<py_str(part)>>
    ELSE <<>>

get_job_text(job) ==
    join(" ", text_parts_of(get(job, "title", PyStr("")))
                \o text_parts_of(get(job, "description", PyStr("")))
                \o text_parts_of(get(job, "requirements", PyStr("")))
                \o text_parts_of(get(job, "benefits", PyStr(""))))

\* job.get(key, '').lower() raises AttributeError unless the value is a str
lowers(job, key) == get(job, key, PyStr("")).t = "str"
lower_of(job, key) == lower(get(job, key, PyStr("")).v)

(***************************************************************************)
(* The nine sub-scorers.  Each takes the matcher (self) and the job record *)
(* and returns Ok(score, reasons) or the exception it raises.              *)
(***************************************************************************)
high_value_skills == {"python", "automation", "data analysis", "api", "database"}

skill_variations(self, skill) ==
    IF lower(skill) \in DOMAIN self.skill_synonyms
    THEN self.skill_synonyms[lower(skill)]
    ELSE <<lower(skill)>>

score_technical_skills(self, job) ==
    LET job_text == lower(get_job_text(job))
        skills == self.profile.technical_skills
        matched_skills ==
            SelectSeq(skills, LAMBDA skill : any_in(skill_variations(self, skill), job_text))
        score == IF skills /= <<>> THEN Frac(Len(matched_skills), Len(skills)) ELSE 0
        high_value_matches ==
            SelectSeq(matched_skills, LAMBDA skill : lower(skill) \in high_value_skills)
        reasons == [i \in DOMAIN matched_skills |-> "Technical skill match: " \o matched_skills[i]]
    IN  IF high_value_matches /= <<>>
        THEN Ok(Min(score + Frac(2, 10), Unit),
                reasons \o <<"High-value skills matched: " \o join(", ", high_value_matches)>>)
        ELSE Ok(Min(score, Unit), reasons)

oil_gas_keywords ==
    <<"oil", "gas", "petroleum", "energy", "drilling", "upstream", "downstream",
      "refinery", "pipeline", "well", "reservoir", "exploration", "production">>

score_industry_experience(self, job) ==
    IF ~lowers(job, "company") THEN Raise("AttributeError")
    ELSE
    LET job_text == lower(get_job_text(job))
        company_name == lower_of(job, "company")
        industry_matches ==
            SelectSeq(oil_gas_keywords,
                      LAMBDA kw : contains(kw, job_text) \/ contains(kw, company_name))
        tier ==
            IF industry_matches /= <<>>
            THEN Ok(Frac(9, 10), <<"Direct O&G industry match: " \o join(", ", industry_matches)>>)
            ELSE IF \E kw \in {"energy", "utility", "power", "renewable"} :
                        contains(kw, job_text) \/ contains(kw, company_name)
            THEN Ok(Frac(7, 10), <<"Energy sector alignment with O&G background">>)
            ELSE IF any_in(<<"industrial", "manufacturing", "operations", "plant", "facility">>, job_text)
            THEN Ok(Frac(5, 10), <<"Industrial operations experience transferable">>)
            ELSE IF any_in(<<"operational", "field", "technical", "systems">>, job_text)
            THEN Ok(Frac(4, 10), <<"Operational expertise valued in technical role">>)
            ELSE Ok(0, <<>>)
        bridge_matches == matches_in(self.industry_bridge_keywords, job_text)
    IN  IF bridge_matches /= <<>>
        THEN Ok(Max(tier.score, Frac(6, 10)),
                tier.reasons \o <<"Industry bridge concepts: " \o join(", ", bridge_matches)>>)
        ELSE tier

\* title keywords compared with == instead of `in`
RECURSIVE evolution_match_exact_title(_, _, _, _)
evolution_match_exact_title(targets, i, job_title, job_text) ==
    IF i > Len(targets) THEN 0
    ELSE IF /\ \E k \in DOMAIN targets[i].title_keywords : targets[i].title_keywords[k] = job_title
            /\ Len(matches_in(targets[i].description_keywords, job_text)) >= 2
    THEN i
    ELSE evolution_match_exact_title(targets, i + 1, job_title, job_text)

\* The first target of the role-evolution map whose title keywords and at
\* least two description keywords match; 0 when there is none.
RECURSIVE evolution_match(_, _, _, _)
evolution_match(targets, i, job_title, job_text) ==
    IF i > Len(targets) THEN 0
    ELSE IF /\ any_in(targets[i].title_keywords, job_title)
            /\ Len(matches_in(targets[i].description_keywords, job_text)) >= 2
    THEN i
    ELSE evolution_match(targets, i + 1, job_title, job_text)

\* The role-evolution map alone: no title-specific transitions after it.
score_role_transition_map_only(self, job) ==
    IF ~lowers(job, "title") THEN Raise("AttributeError")
    ELSE
    LET targets == self.role_evolution_map.drilling_consultant
        hit == evolution_match(targets, 1, lower_of(job, "title"), lower(get_job_text(job)))
    IN  IF hit /= 0
        THEN Ok(targets[hit].score,
                <<"Role evolution match: Drilling Consultant -> " \o targets[hit].target>>)
        ELSE Ok(Frac(3, 10), <<"General role transition potential">>)

score_role_transition(self, job) ==
    IF ~lowers(job, "title") THEN Raise("AttributeError")
    ELSE
    LET job_title == lower_of(job, "title")
        job_text == lower(get_job_text(job))
        targets == self.role_evolution_map.drilling_consultant
        hit == evolution_match(targets, 1, job_title, job_text)
    IN  IF hit /= 0
        THEN Ok(targets[hit].score,
                <<"Role evolution match: Drilling Consultant -> " \o targets[hit].target>>)
        ELSE IF /\ contains("landman", job_title)
                /\ any_in(<<"lease", "contract", "mineral", "rights">>, job_text)
        THEN Ok(Frac(95, 100), <<"Perfect transition: Field operations to Landman role">>)
        ELSE IF /\ contains("data analyst", job_title)
                /\ any_in(<<"operational", "field", "drilling", "production">>, job_text)
        THEN Ok(Frac(85, 100), <<"Strong fit: Operations experience + data analysis">>)
        ELSE IF contains("safety", job_title)
        THEN Ok(Frac(90, 100), <<"Natural fit: 20 years field safety experience">>)
        ELSE IF contains("automation", job_title) \/ contains("automation", job_text)
        THEN Ok(Frac(80, 100), <<"Direct match: AI automation experience">>)
        ELSE Ok(Frac(3, 10), <<"General role transition potential">>)

score_location_fit(self, job) ==
    IF ~lowers(job, "location") THEN Raise("AttributeError")
    ELSE
    LET location == lower_of(job, "location")
    IN  IF any_in(<<"oklahoma city", "okc", "edmond", "norman">>, location)
        THEN Ok(Unit, <<"Perfect location match: Oklahoma City area">>)
        ELSE IF contains("oklahoma", location) \/ contains("ok", location)
        THEN Ok(Frac(8, 10), <<"Good location: Oklahoma state">>)
        ELSE IF \/ truthy(get(job, "remote_friendly", PyNone))
                \/ any_in(<<"remote", "anywhere", "virtual">>, location)
        THEN Ok(Frac(9, 10), <<"Remote work option available">>)
        ELSE IF any_in(<<"texas", "kansas", "arkansas", "colorado">>, location)
        THEN Ok(Frac(4, 10), <<"Regional location - possible relocation">>)
        ELSE IF any_in(<<"houston", "dallas", "denver", "midland">>, location)
        THEN Ok(Frac(6, 10), <<"Major energy hub - worth considering">>)
        ELSE Ok(Frac(2, 10), <<"Location requires relocation">>)

\* the missing bound taken equal to the given one
scaled_as_given(x, num, den) == PyFloat(x.v)

\* x * num / den as Python computes it with a float factor (0.8, 1.3)
scaled(x, num, den) == PyFloat((x.v * num) \div den)

\* max(a, b) and min(a, b) of two Python numbers: the first argument on a tie
py_max(a, b) == IF b.v > a.v THEN b ELSE a
\* max written where min was meant
py_min_as_max(a, b) == IF b.v > a.v THEN b ELSE a
py_min(a, b) == IF b.v < a.v THEN b ELSE a

score_salary_fit(self, job) ==
    LET salary_min == get(job, "salary_min", PyNone)
        salary_max == get(job, "salary_max", PyNone)
        target_min == PyInt(self.profile.salary_range[1])
        target_max == PyInt(self.profile.salary_range[2])
    IN  IF ~truthy(salary_min) /\ ~truthy(salary_max)
        THEN Ok(Frac(5, 10), <<"Salary not specified">>)
        ELSE IF \/ truthy(salary_min) /\ ~is_number(salary_min)
                \/ truthy(salary_max) /\ ~is_number(salary_max)
        THEN Raise("TypeError")
        ELSE
        LET job_min == IF truthy(salary_min) THEN salary_min ELSE scaled(salary_max, 8, 10)
            job_max == IF truthy(salary_max) THEN salary_max ELSE scaled(salary_min, 13, 10)
            overlap_min == py_max(job_min, target_min)
            overlap_max == py_min(job_max, target_max)
            target_range_size == target_max.v - target_min.v
        IN  IF overlap_min.v <= overlap_max.v
            THEN IF target_range_size = 0 THEN Raise("ZeroDivisionError")
                 ELSE Ok(Min(Frac((overlap_max.v - overlap_min.v) * 12, target_range_size * 10), Unit),
                         <<"Salary range overlap: $" \o format_commas(overlap_min)
                             \o " - $" \o format_commas(overlap_max)>>)
            ELSE IF job_min.v > target_max.v
            THEN Ok(Unit, <<"Salary above target range: $" \o format_commas(job_min) \o "+">>)
            ELSE LET gap == [t |-> job_max.t, v |-> target_min.v - job_max.v]
                 IN  IF gap.v <= 10000
                     THEN Ok(Frac(6, 10), <<"Salary slightly below target but negotiable">>)
                     ELSE Ok(Frac(2, 10),
                             <<"Salary significantly below target ($" \o format_commas(gap) \o " gap)">>)

score_remote_compatibility(self, job) ==
    IF ~lowers(job, "location") THEN Raise("AttributeError")
    ELSE
    LET job_text == lower(get_job_text(job))
        location == lower_of(job, "location")
    IN  IF \/ truthy(get(job, "remote_friendly", PyNone))
           \/ any_in(<<"remote", "work from home", "telecommute", "virtual">>, job_text)
           \/ any_in(<<"remote", "anywhere">>, location)
        THEN Ok(Unit, <<"Remote work explicitly available">>)
        ELSE IF any_in(<<"hybrid", "flexible", "home office", "flexible schedule">>, job_text)
        THEN Ok(Frac(8, 10), <<"Hybrid/flexible work arrangement">>)
        ELSE IF ~lowers(job, "title") THEN Raise("AttributeError")
        ELSE IF any_in(<<"analyst", "developer", "consultant", "coordinator", "data">>,
                       lower_of(job, "title"))
        THEN Ok(Frac(6, 10), <<"Role type typically supports remote work">>)
        ELSE IF any_in(<<"on-site", "office", "in-person", "facility">>, job_text)
        THEN Ok(Frac(3, 10), <<"Office-based position">>)
        ELSE Ok(Frac(4, 10), <<"Remote work flexibility unclear">>)

oil_gas_companies ==
    <<"chesapeake", "devon", "continental", "marathon", "phillips 66",
      "conocophillips", "exxon", "chevron", "bp", "shell", "oxy">>

score_company_fit(self, job) ==
    IF ~lowers(job, "company") THEN Raise("AttributeError")
    ELSE
    LET company == lower_of(job, "company")
        job_text == lower(get_job_text(job))
        tier ==
            IF any_in(oil_gas_companies, company)
            THEN Ok(Frac(9, 10), <<"Oil & gas company - strong cultural fit">>)
            ELSE IF any_in(<<"energy", "gas", "electric", "utility", "power">>, company)
            THEN Ok(Frac(7, 10), <<"Energy sector company - good cultural alignment">>)
            ELSE IF any_in(<<"tech", "software", "data", "analytics">>, company)
            THEN Ok(Frac(6, 10), <<"Technology company - values automation skills">>)
            ELSE Ok(Frac(5, 10), <<>>)
    IN  IF any_in(<<"small team", "growing company", "startup">>, job_text)
        THEN Ok(Min(tier.score + Frac(1, 10), Unit),
                tier.reasons \o <<"Smaller company - values versatile experience">>)
        ELSE Ok(Min(tier.score, Unit), tier.reasons)

score_experience_level(self, job) ==
    IF ~lowers(job, "title") THEN Raise("AttributeError")
    ELSE
    LET job_text == lower(get_job_text(job))
        title == lower_of(job, "title")
    IN  IF any_in(<<"senior", "sr.", "lead", "principal", "manager", "supervisor">>, title)
        THEN Ok(Frac(9, 10), <<"Senior level role matches 20+ years experience">>)
        ELSE IF any_in(<<"specialist", "analyst", "coordinator", "consultant">>, title)
        THEN Ok(Frac(7, 10), <<"Mid-level role appropriate for career transition">>)
        ELSE IF any_in(<<"junior", "entry", "associate", "trainee">>, title)
        THEN Ok(Frac(3, 10), <<"Entry level role - may underutilize experience">>)
        ELSE IF contains("20+ years", job_text) \/ contains("twenty years", job_text)
        THEN Ok(Unit, <<"Experience requirement matches background exactly">>)
        ELSE IF contains("15+ years", job_text) \/ contains("10+ years", job_text)
        THEN Ok(Frac(8, 10), <<"Experience requirement aligns with background">>)
        ELSE Ok(Frac(6, 10), <<"Experience level requirements unclear">>)

growth_keywords ==
    <<"career development", "advancement", "growth", "leadership",
      "training", "certification", "education", "mentor", "promotion">>

score_growth_potential(self, job) ==
    LET job_text == lower(get_job_text(job))
        matches == matches_in(growth_keywords, job_text)
    IN  IF Len(matches) >= 3
        THEN Ok(Frac(9, 10), <<"Strong growth indicators: " \o join(", ", SubSeq(matches, 1, 3))>>)
        ELSE IF Len(matches) >= 1
        THEN Ok(Frac(6, 10), <<"Growth potential mentioned: " \o join(", ", matches)>>)
        ELSE Ok(Frac(4, 10), <<"Growth potential unclear">>)

(***************************************************************************)
(* _apply_bonuses_penalties.  Combined scores are held in hundredths of    *)
(* Unit, so a delta of 0.15 is 15 * Unit.                                  *)
(***************************************************************************)
physical_keywords == <<"field work", "physical", "travel", "outdoor", "lifting", "standing">>

\* the list without its vice-president entries
overqualified_keywords_without_vp ==
    <<"executive director", "chief", "ceo", "cfo", "cto",
      "senior director", "managing director", "general manager", "division manager",
      "regional manager", "senior business analyst", "principal analyst",
      "senior consultant", "principal consultant", "senior manager">>

overqualified_keywords ==
    <<"vice president", "vp ", "executive director", "chief", "ceo", "cfo", "cto",
      "senior director", "managing director", "general manager", "division manager",
      "regional manager", "senior business analyst", "principal analyst",
      "senior consultant", "principal consultant", "senior manager">>

\* The nine adjustments in the order the code applies them: whether each is
\* triggered, its delta in hundredths, and the line it adds to the reasons.
adjustment_rules(self, job) ==
    LET company == lower_of(job, "company")
        job_title_lower == lower_of(job, "title")
        job_text_lower == lower(get_job_text(job))
    IN  << [applies |-> /\ contains("oil", company) \/ contains("energy", company)
                        /\ any_in(<<"data", "automation", "analyst", "tech">>, job_text_lower),
            delta |-> 15,
            reason |-> "BONUS: Oil & gas industry + technical role combination"],
           [applies |-> any_in(<<"github", "portfolio", "coding", "programming">>, job_text_lower),
            delta |-> 10,
            reason |-> "BONUS: Values GitHub portfolio and coding skills"],
           [applies |-> any_in(<<"chesapeake", "devon", "continental", "oxy", "sandridge">>, company),
            delta |-> 5,
            reason |-> "BONUS: Major Oklahoma City employer"],
           [applies |-> any_in(physical_keywords, job_text_lower),
            delta |-> -20,
            reason |-> "PENALTY: Physical demands incompatible with ankle recovery"],
           [applies |-> any_in(<<"intern", "trainee", "entry-level">>, job_title_lower),
            delta |-> -15,
            reason |-> "PENALTY: Role significantly below experience level"],
           [applies |-> any_in(overqualified_keywords, job_title_lower),
            delta |-> -40,
            reason |-> "MAJOR PENALTY: Executive/senior role - overqualification for field-to-tech transition"],
           [applies |-> /\ get(job, "salary_max", PyInt(0)).v > 200000
                        /\ ~any_in(<<"python", "automation", "technical", "data", "programming">>,
                                   job_text_lower),
            delta |-> -35,
            reason |-> "MAJOR PENALTY: High-salary executive role inappropriate for experience level"],
           [applies |-> any_in(<<"mba required", "masters required", "phd required",
                                 "advanced degree required">>, job_text_lower),
            delta |-> -25,
            reason |-> "PENALTY: Advanced degree requirement not met"],
           [applies |-> any_in(<<"clearance", "security clearance", "classified">>, job_text_lower),
            delta |-> -10,
            reason |-> "PENALTY: Security clearance requirement"] >>

RECURSIVE sum_deltas_all_subtracted(_, _)
\* every adjustment taken off the score, the bonuses included
sum_deltas_all_subtracted(rules, i) ==
    IF i > Len(rules) THEN 0
    ELSE (IF ~rules[i].applies THEN 0
          ELSE IF rules[i].delta > 0 THEN 0 - rules[i].delta ELSE rules[i].delta)
         + sum_deltas_all_subtracted(rules, i + 1)

RECURSIVE sum_deltas(_, _)
sum_deltas(rules, i) ==
    IF i > Len(rules) THEN 0
    ELSE (IF rules[i].applies THEN rules[i].delta ELSE 0) + sum_deltas(rules, i + 1)

\* The penalties chained with elif: only the first one triggered is applied.
apply_bonuses_penalties_first_penalty_only(self, job, base_score) ==
    IF ~lowers(job, "company") \/ ~lowers(job, "title") THEN Raise("AttributeError")
    ELSE IF ~is_number(get(job, "salary_max", PyInt(0))) THEN Raise("TypeError")
    ELSE
    LET rules == adjustment_rules(self, job)
        first_penalty == {i \in 4..Len(rules) :
                              rules[i].applies /\ \A k \in 4..(i - 1) : ~rules[k].applies}
        applied == [i \in DOMAIN rules |->
                       [rules[i] EXCEPT !.applies = @ /\ (i <= 3 \/ i \in first_penalty)]]
        triggered == SelectSeq(applied, LAMBDA r : r.applies)
    IN  Ok(base_score + sum_deltas(applied, 1) * Unit,
           [i \in DOMAIN triggered |-> triggered[i].reason])

\* The physical-demand penalty applied only to a profile with
\* physical_limitations set.
apply_bonuses_penalties_honouring_flag(self, job, base_score) ==
    IF ~lowers(job, "company") \/ ~lowers(job, "title") THEN Raise("AttributeError")
    ELSE IF ~is_number(get(job, "salary_max", PyInt(0))) THEN Raise("TypeError")
    ELSE
    LET rules == adjustment_rules(self, job)
        applied == [i \in DOMAIN rules |->
                       [rules[i] EXCEPT !.applies =
                            @ /\ (i = 4 => self.profile.physical_limitations)]]
        triggered == SelectSeq(applied, LAMBDA r : r.applies)
    IN  Ok(base_score + sum_deltas(applied, 1) * Unit,
           [i \in DOMAIN triggered |-> triggered[i].reason])

\* The running score capped at 1.0 once the bonuses have been added.
apply_bonuses_penalties_capping_bonuses(self, job, base_score) ==
    IF ~lowers(job, "company") \/ ~lowers(job, "title") THEN Raise("AttributeError")
    ELSE IF ~is_number(get(job, "salary_max", PyInt(0))) THEN Raise("TypeError")
    ELSE
    LET rules == adjustment_rules(self, job)
        triggered == SelectSeq(rules, LAMBDA r : r.applies)
    IN  Ok(Min(base_score + sum_deltas(SubSeq(rules, 1, 3), 1) * Unit, 100 * Unit)
             + sum_deltas(SubSeq(rules, 4, Len(rules)), 1) * Unit,
           [i \in DOMAIN triggered |-> triggered[i].reason])

apply_bonuses_penalties(self, job, base_score) ==
    IF ~lowers(job, "company") \/ ~lowers(job, "title") THEN Raise("AttributeError")
    ELSE IF ~is_number(get(job, "salary_max", PyInt(0))) THEN Raise("TypeError")
    ELSE
    LET rules == adjustment_rules(self, job)
        triggered == SelectSeq(rules, LAMBDA r : r.applies)
    IN  Ok(base_score + sum_deltas(rules, 1) * Unit,
           [i \in DOMAIN triggered |-> triggered[i].reason])

(***************************************************************************)
(* calculate_match_score                                                   *)
(***************************************************************************)
\* The sub-scorers in evaluation order, with their weights in hundredths.
\* the sub-scorers taken in the alphabetical order of their keys
score_keys_alphabetical ==
    <<"company_fit", "experience_level", "growth_potential", "industry_experience",
      "location_fit", "remote_compatibility", "role_transition", "salary_fit",
      "technical_skills">>

score_keys ==
    <<"technical_skills", "industry_experience", "role_transition", "location_fit",
      "salary_fit", "remote_compatibility", "company_fit", "experience_level",
      "growth_potential">>

\* the weights of technical_skills and role_transition exchanged
weights_role_transition_first ==
    [technical_skills |-> 20, industry_experience |-> 20, role_transition |-> 25,
     location_fit |-> 10, salary_fit |-> 10, remote_compatibility |-> 5,
     company_fit |-> 5, experience_level |-> 3, growth_potential |-> 2]

\* technical_skills weighted 0.35, the other weights as they are
weights_technical_skills_heavier ==
    [technical_skills |-> 35, industry_experience |-> 20, role_transition |-> 20,
     location_fit |-> 10, salary_fit |-> 10, remote_compatibility |-> 5,
     company_fit |-> 5, experience_level |-> 3, growth_potential |-> 2]

weights ==
    [technical_skills |-> 25, industry_experience |-> 20, role_transition |-> 20,
     location_fit |-> 10, salary_fit |-> 10, remote_compatibility |-> 5,
     company_fit |-> 5, experience_level |-> 3, growth_potential |-> 2]

sub_scorer(key, self, job) ==
    CASE key = "technical_skills"     -> score_technical_skills(self, job)
      [] key = "industry_experience"  -> score_industry_experience(self, job)
      [] key = "role_transition"      -> score_role_transition(self, job)
      [] key = "location_fit"         -> score_location_fit(self, job)
      [] key = "salary_fit"           -> score_salary_fit(self, job)
      [] key = "remote_compatibility" -> score_remote_compatibility(self, job)
      [] key = "company_fit"          -> score_company_fit(self, job)
      [] key = "experience_level"     -> score_experience_level(self, job)
      [] key = "growth_potential"     -> score_growth_potential(self, job)

\* scores = {key: 0.0, ...}
initial_scores == [k \in {score_keys[i] : i \in DOMAIN score_keys} |-> 0]

RECURSIVE weighted_sum(_, _)
\* sum(scores[key] * weights[key] for key in scores)
weighted_sum(scores, i) ==
    IF i > Len(score_keys) THEN 0
    ELSE scores[score_keys[i]] * weights[score_keys[i]] + weighted_sum(scores, i + 1)

\* final_score = min(final_score, 1.0)
cap_score(final_score) == Min(final_score, 100 * Unit)

\* scores[key] = score; reasons.extend(sub_reasons) -- or the sub-scorer's
\* exception leaves the call.
store_sub_score(frame, key, r) ==
    IF r.raised /= "" THEN [frame EXCEPT !.raised = r.raised]
    ELSE [raised |-> "",
          scores |-> [frame.scores EXCEPT ![key] = r.score],
          reasons |-> frame.reasons \o r.reasons]

\* The next sub-scorer runs unless an earlier one has raised.
next_sub_scorer(frame, key, self, job) ==
    IF frame.raised /= "" THEN frame
    ELSE store_sub_score(frame, key, sub_scorer(key, self, job))

\* The frame of one call after the first n sub-scorers have run.
RECURSIVE run_sub_scorers(_, _, _)
run_sub_scorers(self, job, n) ==
    IF n = 0 THEN [raised |-> "", scores |-> initial_scores, reasons |-> <<>>]
    ELSE next_sub_scorer(run_sub_scorers(self, job, n - 1), score_keys[n], self, job)

\* reasons.extend(bonus_reasons); final_score = min(final_score, 1.0)
cap_adjusted(frame, adjusted) ==
    IF adjusted.raised /= ""
    THEN [raised |-> adjusted.raised, scores |-> frame.scores, reasons |-> <<>>,
          final_score |-> 0]
    ELSE [raised |-> "", scores |-> frame.scores,
          reasons |-> frame.reasons \o adjusted.reasons,
          final_score |-> cap_score(adjusted.score)]

\* Lines 130-150 on the frame the sub-scorers left.
finish_call(self, job, frame) ==
    IF frame.raised /= "" THEN [frame EXCEPT !.reasons = <<>>] @@ [final_score |-> 0]
    ELSE cap_adjusted(frame, apply_bonuses_penalties(self, job, weighted_sum(frame.scores, 1)))

\* The call's locals when it ends: `scores`, `reasons` and `final_score`, or
\* the exception raised.
run_call(self, job) == finish_call(self, job, run_sub_scorers(self, job, Len(score_keys)))

\* return final_score, reasons
returned_or_raised(end) ==
    IF end.raised /= "" THEN Raise(end.raised) ELSE Ok(end.final_score, end.reasons)

calculate_match_score(self, job) == returned_or_raised(run_call(self, job))

(***************************************************************************)
(* Job records offered to the matcher                                      *)
(***************************************************************************)
\* Only title and company present.
MinimalTitles == {"Senior Landman", "Operations Coordinator", "Vice President of Operations"}
MinimalCompanies == {"Devon Energy", "Acme Corp"}
MinimalJobs == {[title |-> PyStr(t), company |-> PyStr(c)] : t \in MinimalTitles, c \in MinimalCompanies}

LandmanJob ==
    [title |-> PyStr("Senior Landman"), company |-> PyStr("Devon Energy"),
     location |-> PyStr("Oklahoma City, OK"),
     description |-> PyStr("lease mineral rights contract title oil gas"),
     salary_min |-> PyInt(75000), salary_max |-> PyInt(105000)]

ExecutiveJob ==
    [title |-> PyStr("Chief Financial Officer"), salary_max |-> PyInt(250000),
     description |-> PyStr("strategic finance leadership")]

\* The two jobs of test_overqualification_filter.py
OverqualifiedTestJob ==
    [title |-> PyStr("Senior Business Analyst Manager"),
     company |-> PyStr("PRICE WATERHOUSE COOPERS"),
     location |-> PyStr("Dallas, TX"),
     description |-> PyStr("Lead business analysis team for enterprise clients. MBA preferred."),
     salary_min |-> PyInt(200000), salary_max |-> PyInt(244000),
     remote_friendly |-> PyBool(FALSE), employment_type |-> PyStr("FULLTIME"),
     url |-> PyStr("https://example.com")]

AcceptableTestJob ==
    [title |-> PyStr("Safety Coordinator"), company |-> PyStr("Devon Energy"),
     location |-> PyStr("Oklahoma City, OK"),
     description |-> PyStr("Coordinate safety programs for drilling operations. Oil and gas experience preferred."),
     salary_min |-> PyInt(65000), salary_max |-> PyInt(85000),
     remote_friendly |-> PyBool(FALSE), employment_type |-> PyStr("FULLTIME"),
     url |-> PyStr("https://example.com")]

\* An executive title on a record that earns every bonus and a full mark from
\* nearly every sub-scorer, without any of the technical keywords.
ChiefLandmanJob ==
    [title |-> PyStr("Chief Landman"), company |-> PyStr("Devon Energy"),
     location |-> PyStr("Oklahoma City, OK"),
     description |-> PyStr("remote startup 20+ years oil lease contract analyst github django js applescript bash shell scripting bi system integration api development macos network report generation growth training mentor"),
     salary_min |-> PyInt(210000), salary_max |-> PyInt(260000)]

\* A safety title at a listed employer in the Oklahoma City area that earns
\* little from the other sub-scorers, without a salary and with salary ranges
\* below, on the edge of, inside and above the target range.
LeanSafetyJob ==
    [title |-> PyStr("Associate Safety IT Specialist"), company |-> PyStr("SandRidge"),
     location |-> PyStr("Norman, OK"), description |-> PyStr("oil systems support office")]

SalaryRanges == {<<20000, 30000>>, <<65000, 65000>>, <<70000, 90000>>, <<150000, 195000>>}

SafetyJobs ==
    {LeanSafetyJob}
      \cup {[k \in DOMAIN LeanSafetyJob \cup {"salary_min", "salary_max"} |->
                IF k = "salary_min" THEN PyInt(r[1])
                ELSE IF k = "salary_max" THEN PyInt(r[2])
                ELSE LeanSafetyJob[k]] : r \in SalaryRanges}

\* Pairs that differ in the title alone.
VicePresident == "Vice President of Operations"
Coordinator == "Operations Coordinator"

PlainRest ==
    [title |-> PyStr(""), company |-> PyStr("Acme Corp"), location |-> PyStr("Tulsa, OK"),
     description |-> PyStr("Manage plant operations and vendor contracts."),
     salary_min |-> PyInt(70000), salary_max |-> PyInt(90000)]

VeteranRest ==
    [title |-> PyStr(""), company |-> PyStr("Acme Corp"), location |-> PyStr("Remote"),
     description |-> PyStr("20+ years of experience required. Remote team."),
     salary_min |-> PyInt(70000), salary_max |-> PyInt(90000)]

StrongRest ==
    [title |-> PyStr(""), company |-> PyStr("Devon Energy"),
     location |-> PyStr("Oklahoma City, OK"),
     description |-> PyStr("Python and SQL data analysis, workflow automation, REST API integration on Linux. GitHub portfolio welcome. Remote. Drilling and production data."),
     requirements |-> PyList(<<PyStr("JavaScript"), PyStr("network monitoring")>>),
     salary_min |-> PyInt(65000), salary_max |-> PyInt(150000),
     remote_friendly |-> PyBool(TRUE)]

PairedJobs ==
    {[rest EXCEPT !.title = PyStr(t)] :
        rest \in {PlainRest, VeteranRest, StrongRest}, t \in {VicePresident, Coordinator}}

\* Records as the source connectors emit them: a key present, its value None.
NullSalaryJob ==
    [title |-> PyStr("Safety Coordinator"), company |-> PyStr("Devon Energy"),
     location |-> PyStr("Oklahoma City, OK"),
     description |-> PyStr("Coordinate safety programs."),
     salary_min |-> PyNone, salary_max |-> PyNone]

NullTitleJob ==
    [title |-> PyNone, company |-> PyStr("Devon Energy"),
     location |-> PyStr("Oklahoma City, OK"), description |-> PyStr("Coordinate safety programs.")]

\* A neutral title with an empty description, or with one keyword added.
HighValueKeywords == {"python", "automation", "data analysis", "api", "database"}
KeywordJobs ==
    {[title |-> PyStr("Clerk"), description |-> PyStr(d)] : d \in {""} \cup HighValueKeywords}

Jobs ==
    MinimalJobs \cup PairedJobs \cup KeywordJobs \cup SafetyJobs
      \cup {LandmanJob, ExecutiveJob, OverqualifiedTestJob, AcceptableTestJob,
            ChiefLandmanJob, NullSalaryJob, NullTitleJob}

\* A batch scored by several callers at once: a full match and a record
\* that makes the call raise at its last step.
BatchJobs == {LandmanJob, NullSalaryJob}

(***************************************************************************)
(* SmartDarkHTMLGenerator._categorize_job                                  *)
(***************************************************************************)
\* str.split(): the words between runs of spaces
RECURSIVE split_from(_, _, _)
split_from(s, i, word) ==
    IF i > Len(s) THEN (IF word = "" THEN <<>> ELSE <<word>>)
    ELSE IF SubSeq(s, i, i) = " "
    THEN (IF word = "" THEN <<>> ELSE <<word>>) \o split_from(s, i + 1, "")
    ELSE split_from(s, i + 1, word \o SubSeq(s, i, i))

split(s) == split_from(s, 1, "")

keyword_map ==
    ("Oil & Gas Operations" :>
        <<"landman", "lease", "title", "minerals", "royalty", "drilling", "upstream",
          "production", "reservoir", "geology", "petroleum", "energy", "oil", "gas">>)
    @@ ("Safety & Compliance" :>
        <<"safety", "HSE", "compliance", "environmental", "risk", "audit", "OSHA",
          "training", "incident", "hazard", "protection", "emergency">>)
    @@ ("Data Analysis & Business Intelligence" :>
        <<"data", "analytics", "analysis", "reporting", "business intelligence", "BI",
          "dashboard", "metrics", "KPI", "SQL", "visualization", "insights">>)
    @@ ("Project Management & Operations" :>
        <<"project", "operations", "management", "coordination", "implementation",
          "planning", "execution", "stakeholder", "budget", "schedule">>)
    @@ ("Technical Consulting & Advisory" :>
        <<"consultant", "advisory", "expert", "specialist", "technical", "implementation",
          "best practices", "methodology", "strategy", "guidance">>)
    @@ ("Quality Assurance & Process" :>
        <<"quality", "QA", "QC", "process", "improvement", "standards", "procedures",
          "documentation", "certification", "inspection">>)
    @@ ("IT & Automation" :>
        <<"IT", "automation", "systems", "software", "technology", "digital",
          "programming", "development", "integration", "workflow">>)
    @@ ("Training & Development" :>
        <<"training", "development", "learning", "education", "curriculum", "instructor",
          "teaching", "knowledge", "mentoring", "coaching">>)
    @@ ("Customer Success & Relations" :>
        <<"customer", "client", "relations", "success", "account", "business development",
          "partnership", "vendor", "stakeholder">>)

\* keyword_map.get(category_name, [])
get_category_keywords(category_name) ==
    IF category_name \in DOMAIN keyword_map THEN keyword_map[category_name] ELSE <<>>

\* category_data.get('subcategories', [])
subcategories_of(category_data) ==
    IF "subcategories" \in DOMAIN category_data THEN category_data.subcategories ELSE <<>>

\* The words of the subcategories found in the text, in loop order (lines
\* 155-160): each adds 2.0 to the score.
RECURSIVE subcategory_matches(_, _, _)
subcategory_matches(subcategories, i, job_text) ==
    IF i > Len(subcategories) THEN <<>>
    ELSE matches_in(split(lower(subcategories[i])), job_text)
         \o subcategory_matches(subcategories, i + 1, job_text)

\* The category keywords found in the text (lines 163-167): each adds 1.0.
keyword_matches(industry_keywords, job_text) ==
    SelectSeq(industry_keywords, LAMBDA keyword : contains(lower(keyword), job_text))

\* One pass of the loop over categories.items(): score and matched_keywords.
category_entry(category, sub_matched, kw_matched) ==
    [name |-> category.name,
     score |-> 2 * Len(sub_matched) + Len(kw_matched),
     keywords |-> sub_matched \o kw_matched,
     data |-> category.data]

score_category(category, job_text) ==
    category_entry(category,
                   subcategory_matches(subcategories_of(category.data), 1, job_text),
                   keyword_matches(get_category_keywords(category.name), job_text))

\* if score > 0: category_scores[category_name] = {...}
scored(entry) == IF entry.score > 0 THEN <<entry>> ELSE <<>>

\* category_scores: the entries with score > 0, in the order of the table.
RECURSIVE category_scores(_, _, _)
category_scores(categories, i, job_text) ==
    IF i > Len(categories) THEN <<>>
    ELSE scored(score_category(categories[i], job_text))
         \o category_scores(categories, i + 1, job_text)

\* max() written so that a later equal score replaces the earlier one
RECURSIVE best_category_last(_, _, _)
best_category_last(entries, i, best) ==
    IF i > Len(entries) THEN best
    ELSE best_category_last(entries, i + 1,
                            IF entries[i].score >= entries[best].score THEN i ELSE best)

\* max(category_scores.items(), key=score): the first entry with the largest
\* score.
RECURSIVE best_category(_, _, _)
best_category(entries, i, best) ==
    IF i > Len(entries) THEN best
    ELSE best_category(entries, i + 1,
                       IF entries[i].score > entries[best].score THEN i ELSE best)

\* score / 10.0 * 100 without the cap
category_confidence_uncapped(score) == score * 10

\* min(score / 10.0 * 100, 95)
category_confidence(score) == Min(score * 10, 95)

general_category ==
    [raised |-> "", category |-> "General", category_confidence |-> 50,
     category_keywords |-> <<>>,
     category_data |-> [overall_probability |-> 60, salary_range |-> <<50000, 80000>>]]

category_result(category_info) ==
    [raised |-> "", category |-> category_info.name,
     category_confidence |-> category_confidence(category_info.score),
     category_keywords |-> SubSeq(category_info.keywords, 1, Min(5, Len(category_info.keywords))),
     category_data |-> category_info.data]

select_category(entries) ==
    IF entries /= <<>> THEN category_result(entries[best_category(entries, 1, 1)])
    ELSE general_category

\* f"{title} {description} {company}"
category_job_text(job) ==
    lower_of(job, "title") \o " " \o lower_of(job, "description") \o " " \o lower_of(job, "company")

categorize_job(job, categories) ==
    IF ~lowers(job, "title") \/ ~lowers(job, "description") \/ ~lowers(job, "company")
    THEN [raised |-> "AttributeError"]
    ELSE select_category(category_scores(categories, 1, category_job_text(job)))

\* Entries of the categories table (calculate_category_probabilities).
OilGasCategory ==
    [name |-> "Oil & Gas Operations",
     data |-> [overall_probability |-> 85, salary_range |-> <<75000, 120000>>,
               growth_outlook |-> "Stable",
               subcategories |-> <<"Senior Landman", "Land Manager", "Lease Analyst",
                                   "Right of Way Agent", "Title Researcher",
                                   "Contract Specialist">>]]
SafetyCategory ==
    [name |-> "Safety & Compliance",
     data |-> [overall_probability |-> 80, salary_range |-> <<65000, 95000>>,
               growth_outlook |-> "Growing",
               subcategories |-> <<"HSE Coordinator", "Safety Manager", "Compliance Specialist",
                                   "Environmental Coordinator", "Risk Management Specialist",
                                   "Audit Specialist", "Training Coordinator">>]]
\* A category the keyword map does not know, without subcategories.
UnlistedCategory ==
    [name |-> "Field Services",
     data |-> [overall_probability |-> 70, salary_range |-> <<60000, 90000>>]]

Categories == {OilGasCategory, SafetyCategory, UnlistedCategory}

\* The tables: every ordering of every subset of the categories.
CategoryTables ==
    UNION {{t \in [1..n -> Categories] : \A a, b \in 1..n : a /= b => t[a] /= t[b]} :
               n \in 0..Cardinality(Categories)}

CategoryTitles == {"Senior Landman", "Cook"}
CategoryDescriptions == {"", "safety and lease work", "lease title audit for oil and gas minerals"}
CategoryCompanies == {"Acme Corp", "Devon Energy"}
CategoryJobs ==
    {[title |-> PyStr(t), description |-> PyStr(d), company |-> PyStr(c)] :
        t \in CategoryTitles, d \in CategoryDescriptions, c \in CategoryCompanies}

(***************************************************************************)
(* Candidate profiles a matcher is constructed with                        *)
(***************************************************************************)
\* The reference profile, the same without physical limitations, one whose
\* target salary range has min = max, one without technical skills and one
\* with another home location.
Profiles ==
    {CandidateProfile,
     [CandidateProfile EXCEPT !.physical_limitations = FALSE],
     [CandidateProfile EXCEPT !.salary_range = <<100000, 100000>>],
     [CandidateProfile EXCEPT !.technical_skills = <<>>],
     [CandidateProfile EXCEPT !.location = "Houston, TX"]}

\* A high match (0.88) with a short text, and a match capped at 1.0.
DataAnalystJob ==
    [title |-> PyStr("Data Analyst"), company |-> PyStr("Devon Energy"),
     location |-> PyStr("OKC"), description |-> PyStr("python remote oil github"),
     salary_min |-> PyInt(70000), salary_max |-> PyInt(90000)]
StrongCoordinatorJob == [StrongRest EXCEPT !.title = PyStr(Coordinator)]

PhysicalJob ==
    [title |-> PyStr("Field Technician"), company |-> PyStr("Acme Corp"),
     description |-> PyStr("travel required")]

\* Well-formed records: with and without a salary, with and without a
\* physical-demand keyword or a technical skill.
ProfileJobs ==
    {PhysicalJob, LandmanJob, AcceptableTestJob,
     [title |-> PyStr("Senior Landman"), company |-> PyStr("Devon Energy")],
     [title |-> PyStr("Clerk"), description |-> PyStr("python")],
     [title |-> PyStr("Clerk"), location |-> PyStr("Houston, TX")]}

(***************************************************************************)
(* Job records that exercise one sub-scorer or one adjustment each         *)
(***************************************************************************)
\* salary_min / salary_max as the connectors deliver them: 0 where the
\* source gave no figure, or the key absent (-1 here)
SalaryInputs ==
    {<<-1, -1>>, <<0, 0>>, <<70000, 90000>>, <<65000, 150000>>, <<120000, -1>>,
     <<120000, 0>>, <<-1, 100000>>, <<0, 100000>>, <<-1, 60000>>, <<-1, 50000>>,
     <<55000, 64000>>, <<20000, 30000>>, <<160000, 200000>>, <<150000, 195000>>,
     <<100000, 80000>>, <<40000, 65000>>}

with_salary(rest, r) ==
    [k \in DOMAIN rest \cup (IF r[1] = -1 THEN {} ELSE {"salary_min"})
                       \cup (IF r[2] = -1 THEN {} ELSE {"salary_max"}) |->
        IF k = "salary_min" THEN PyInt(r[1])
        ELSE IF k = "salary_max" THEN PyInt(r[2])
        ELSE rest[k]]

SalaryJobs == {with_salary([title |-> PyStr("Clerk")], r) : r \in SalaryInputs}

ExperienceTitles == {"Senior Analyst", "Data Analyst", "Junior Clerk", "Clerk"}
ExperienceDescriptions ==
    {"", "20+ years of experience", "twenty years of experience", "10+ years of experience"}
ExperienceJobs ==
    {[title |-> PyStr(t), description |-> PyStr(d)] :
        t \in ExperienceTitles, d \in ExperienceDescriptions}

RoleJobs ==
    {[title |-> PyStr(r[1]), description |-> PyStr(r[2])] :
        r \in {<<"Safety Officer", "">>, <<"Safety Coordinator", "safety compliance osha">>,
               <<"Landman", "lease">>, <<"Landman", "">>,
               <<"Data Analyst", "drilling">>, <<"Data Analyst", "">>,
               <<"Systems Analyst", "systems support">>, <<"Systems Analyst", "support">>,
               <<"Process Engineer", "process control">>, <<"Clerk", "automation">>,
               <<"Clerk", "lease contract">>}}

IndustryJobs ==
    {[title |-> PyStr("Clerk"), description |-> PyStr(d)] :
        d \in {"oil", "utility", "plant", "systems", "risk management",
               "oil risk management", "utility asset management",
               "plant risk management", "systems cost optimization"}}
      \cup {[title |-> PyStr("Clerk"), company |-> PyStr(c)] :
               c \in {"Devon Energy", "City Utility", "Acme Corp"}}

JuniorTitles ==
    {"Junior Data Analyst", "Marketing Intern", "Entry-Level Clerk", "Entry Level Clerk",
     "Management Trainee", "International Sales Clerk", "Internal Auditor"}
TitleJobs == {[title |-> PyStr(t)] : t \in JuniorTitles}

\* A record on which eight of the nine adjustments are triggered.
ManyAdjustmentsJob ==
    [title |-> PyStr("Chief Intern"), company |-> PyStr("Devon Energy"),
     description |-> PyStr("travel mba required clearance github data"),
     salary_max |-> PyInt(250000)]

ScorerJobs ==
    SalaryJobs \cup ExperienceJobs \cup RoleJobs \cup IndustryJobs \cup TitleJobs
      \cup {ManyAdjustmentsJob, ChiefLandmanJob, ExecutiveJob, LandmanJob, DataAnalystJob,
            StrongCoordinatorJob}

(***************************************************************************)
(* ProductionJobScheduler._process_and_score_jobs                          *)
(***************************************************************************)
\* job['match_score'] = match_score; job['match_reasons'] = match_reasons
annotate(job, r) ==
    [k \in DOMAIN job \cup {"match_score", "match_reasons"} |->
        IF k = "match_score" THEN PyFloat(r.score)
        ELSE IF k = "match_reasons" THEN PyList([i \in DOMAIN r.reasons |-> PyStr(r.reasons[i])])
        ELSE job[k]]

no_jobs_processed(raw_jobs) ==
    [raw_jobs |-> raw_jobs, processed_jobs |-> <<>>, high_match_count |-> 0, stopped |-> FALSE]

\* One turn of the loop over job i, whose scoring call ended as r: the
\* except branch skips the job, the try branch annotates it, appends it if it
\* reaches min_score and counts it if it reaches 0.8.
process_job(acc, i, r, min_score) ==
    IF r.raised /= "" THEN acc
    ELSE [raw_jobs |-> [acc.raw_jobs EXCEPT ![i] = annotate(@, r)],
          processed_jobs |-> IF r.score >= min_score
                             THEN Append(acc.processed_jobs, annotate(acc.raw_jobs[i], r))
                             ELSE acc.processed_jobs,
          high_match_count |-> IF r.score >= min_score /\ r.score >= 80 * Unit
                               THEN acc.high_match_count + 1
                               ELSE acc.high_match_count,
          stopped |-> FALSE]

\* The try around the whole loop: the first job that raises ends the batch.
process_job_or_stop(acc, i, r, min_score) ==
    IF acc.stopped THEN acc
    ELSE IF r.raised /= "" THEN [acc EXCEPT !.stopped = TRUE]
    ELSE process_job(acc, i, r, min_score)

RECURSIVE process_jobs_until_raise(_, _, _, _)
process_jobs_until_raise(self, raw_jobs, min_score, n) ==
    IF n = 0 THEN no_jobs_processed(raw_jobs)
    ELSE process_job_or_stop(process_jobs_until_raise(self, raw_jobs, min_score, n - 1), n,
                             calculate_match_score(self, raw_jobs[n]), min_score)

RECURSIVE process_jobs(_, _, _, _)
\* for job in raw_jobs: ..., over the first n jobs
process_jobs(self, raw_jobs, min_score, n) ==
    IF n = 0 THEN no_jobs_processed(raw_jobs)
    ELSE process_job(process_jobs(self, raw_jobs, min_score, n - 1), n,
                     calculate_match_score(self, raw_jobs[n]), min_score)

\* The handler's effects: the list it returns, the job records it was given
\* (annotated in place) and search_stats['high_match_jobs'].
process_and_score_jobs(self, raw_jobs, min_score, done) ==
    [called |-> TRUE, input |-> raw_jobs, min_score |-> min_score,
     raw_jobs |-> done.raw_jobs, processed_jobs |-> done.processed_jobs,
     high_match_jobs |-> done.high_match_count]

\* A high match (0.88), a job scoring between the thresholds (0.66), a job
\* far below them and a record that makes the scoring call raise.
RawJobPool == {DataAnalystJob, LandmanJob, ExecutiveJob, NullSalaryJob}

MaxBatch == 3
RECURSIVE batches_of(_)
batches_of(n) ==
    IF n = 0 THEN {<<>>}
    ELSE {<<>>} \cup {<<j>> \o rest : j \in RawJobPool, rest \in batches_of(n - 1)}
RawJobBatches == batches_of(MaxBatch)

\* config["notification_settings"]["minimum_match_score"]: the default 0.6,
\* a laxer and a stricter setting
MinimumMatchScores == {50 * Unit, 60 * Unit, 85 * Unit}

(***************************************************************************)
(* ProductionJobScheduler._run_daily_job_search: the except branch         *)
(* (src/automation_scheduler.py, lines 221-245)                            *)
(***************************************************************************)
\* config["search_schedule"]["retry_attempts"]: no retries, one, the default
RetryAttempts == {0, 1, 3}

MaxRuns == 5

\* One run of _run_daily_job_search on the scheduler state s, started by
\* the job `trigger`; the try block completes or raises.  search_stats is
\* reset at the start of the run and the except branch records the failure.
\* getattr(self._run_daily_job_search, '_retry_count', 0) reads the
\* attribute through to the function, where nothing has set it; the
\* assignment of line 231 is to a bound method object, which has no
\* attributes of its own, and raises AttributeError, so the handler is left
\* before add_job.  A date-triggered job is removed once it has run.
run_daily_job_search(s, trigger, fails) ==
    LET started == [s EXCEPT !.retry_jobs = @ \ ({trigger} \ {"daily_job_search"})]
        retry_count == IF "_retry_count" \in DOMAIN s.function_attributes
                       THEN s.function_attributes["_retry_count"] ELSE 0
        max_retries == s.retry_attempts
    IN  IF ~fails
        THEN [started EXCEPT !.errors = <<>>, !.runs = Append(@, "completed")]
        ELSE IF retry_count < max_retries
        THEN [started EXCEPT !.errors = <<"Critical failure">>,
                             !.runs = Append(@, "AttributeError")]
        ELSE [started EXCEPT !.errors = <<"Critical failure">>,
                             !.failure_notifications = @ + 1,
                             !.runs = Append(@, "failure notification")]

(***************************************************************************)
(* SecureJobDiscovery (src/production_job_system_v2.py).  A job_data       *)
(* record of the search API is a function from its keys to plain values;   *)
(* match scores are held in hundredths.                                    *)
(***************************************************************************)
\* len(self.priority_searches)
NumPrioritySearches == 19

\* self.max_jobs
max_jobs == 100

\* JobListing._is_safe_url: urlparse(url).scheme in ['http', 'https'] and
\* urlparse(url).netloc.  The scheme is the text before the first ':' when
\* it holds no '/', '?' or '#', lowercased; the netloc follows '//' and ends
\* at the next '/', '?' or '#'.
is_safe_url(url) ==
    LET RECURSIVE first_of(_, _, _)
        first_of(chars, t, i) ==
            IF i > Len(t) THEN 0
            ELSE IF SubSeq(t, i, i) \in chars THEN i
            ELSE first_of(chars, t, i + 1)
        colon == first_of({":"}, url, 1)
        has_scheme == colon > 1 /\ first_of({"/", "?", "#"}, SubSeq(url, 1, colon - 1), 1) = 0
        scheme == IF has_scheme THEN lower(SubSeq(url, 1, colon - 1)) ELSE ""
        rest == IF has_scheme THEN SubSeq(url, colon + 1, Len(url)) ELSE url
        after == IF Len(rest) >= 2 /\ SubSeq(rest, 1, 2) = "//"
                 THEN SubSeq(rest, 3, Len(rest)) ELSE ""
        end == first_of({"/", "?", "#"}, after, 1)
        netloc == IF end = 0 THEN after ELSE SubSeq(after, 1, end - 1)
    IN  scheme \in {"http", "https"} /\ netloc /= ""

\* JobListing(...) with __post_init__: the title is HTML-escaped and a URL
\* that is not safe is replaced by "#".
JobListing(title, url, match_score, obtainability) ==
    LET RECURSIVE html_escape(_)
        html_escape(t) ==
            IF t = "" THEN ""
            ELSE LET c == SubSeq(t, 1, 1)
                 IN  (CASE c = "&" -> "&amp;"
                        [] c = "<" -> "&lt;"
                        [] c = ">" -> "&gt;"
                        [] c = "\"" -> "&quot;"
                        [] c = "'" -> "&#x27;"
                        [] OTHER -> c) \o html_escape(SubSeq(t, 2, Len(t)))
    IN  [title |-> html_escape(title),
         url |-> IF is_safe_url(url) THEN url ELSE "#",
         match_score |-> match_score,
         obtainability |-> obtainability]

\* SecureJobDiscovery._calculate_match_score
job_data_match_score(job_data) ==
    LET job_title == lower(get(job_data, "job_title", ""))
        job_desc == lower(get(job_data, "job_description", ""))
        job_state == lower(get(job_data, "job_state", ""))
        salary_max == get(job_data, "job_max_salary", 0)
    IN  Min(70
            + (IF any_in(<<"senior", "manager", "specialist", "coordinator">>, job_title)
               THEN 10 ELSE 0)
            + (IF get(job_data, "job_is_remote", FALSE) THEN 15 ELSE 0)
            + (IF any_in(<<"oil", "gas", "energy", "petroleum">>, job_desc) THEN 15
               ELSE IF any_in(<<"safety", "hse", "compliance">>, job_desc) THEN 12
               ELSE IF any_in(<<"data", "analysis", "reporting">>, job_desc) THEN 8
               ELSE 0)
            + (IF contains("oklahoma", job_state) THEN 10 ELSE 0)
            + (IF salary_max >= 100000 THEN 10
               ELSE IF salary_max >= 80000 THEN 5
               ELSE IF salary_max > 0 THEN 2
               ELSE 0),
            95)

\* SecureJobDiscovery._assess_obtainability
assess_obtainability(job_data) ==
    LET job_title == lower(get(job_data, "job_title", ""))
        job_desc == lower(get(job_data, "job_description", ""))
        job_state == lower(get(job_data, "job_state", ""))
        salary_max == get(job_data, "job_max_salary", 0)
        remote == get(job_data, "job_is_remote", FALSE)
        factors ==
            (IF remote THEN 2 ELSE 0)
            + (IF contains("oklahoma", job_state) THEN 2 ELSE 0)
            + (IF any_in(<<"coordinator", "specialist", "analyst">>, job_title) THEN 1 ELSE 0)
            + (IF salary_max >= 100000 THEN 2 ELSE IF salary_max >= 80000 THEN 1 ELSE 0)
            - (IF any_in(<<"travel 50%", "heavy lifting", "field work required">>, job_desc)
               THEN 2 ELSE 0)
            - (IF any_in(<<"director", "vp", "executive">>, job_title) THEN 1 ELSE 0)
    IN  IF ~remote /\ ~contains("oklahoma", job_state) /\ salary_max < 80000 THEN "Low"
        ELSE IF factors >= 3 THEN "High"
        ELSE IF factors >= 1 THEN "Medium"
        ELSE "Low"

\* SecureJobDiscovery._process_job_data: the listing made of a job_data
\* record; url is job_apply_link, else job_google_link, else '#'.
process_job_data(job_data) ==
    JobListing(get(job_data, "job_title", "Unknown Title"),
               get(job_data, "job_apply_link", get(job_data, "job_google_link", "#")),
               job_data_match_score(job_data),
               assess_obtainability(job_data))

\* search_jobs on the response `data`: at most five records are processed
\* and the listings with match_score >= 0.65 are returned.
search_jobs(data) ==
    SelectSeq([i \in 1..Min(5, Len(data)) |-> process_job_data(data[i])],
              LAMBDA listing : listing.match_score >= 65)

\* discover_all_jobs on the responses of the searches, in order: the
\* listings are collected until max_jobs are held, duplicates by url are
\* removed, the rest is sorted (stably, as list.sort does) with
\* High-obtainability first and then by descending match_score, and at
\* most max_jobs are kept.
discover_all_jobs(responses) ==
    LET RECURSIVE collect(_, _)
        collect(i, all_jobs) ==
            IF i > Len(responses) THEN all_jobs
            ELSE LET extended == all_jobs \o search_jobs(responses[i])
                 IN  IF Len(extended) >= max_jobs THEN extended
                     ELSE collect(i + 1, extended)
        RECURSIVE unique(_, _, _)
        unique(all_jobs, i, unique_jobs) ==
            IF i > Len(all_jobs) THEN unique_jobs
            ELSE unique(all_jobs, i + 1,
                        IF \E k \in DOMAIN unique_jobs : unique_jobs[k].url = all_jobs[i].url
                        THEN unique_jobs ELSE Append(unique_jobs, all_jobs[i]))
        before(a, b) ==
            \/ a.obtainability = "High" /\ b.obtainability /= "High"
            \/ /\ (a.obtainability = "High") = (b.obtainability = "High")
               /\ a.match_score > b.match_score
        RECURSIVE insert(_, _)
        insert(sorted, listing) ==
            IF sorted = <<>> THEN <<listing>>
            ELSE IF before(listing, sorted[Len(sorted)])
            THEN Append(insert(SubSeq(sorted, 1, Len(sorted) - 1), listing), sorted[Len(sorted)])
            ELSE Append(sorted, listing)
        RECURSIVE sort(_, _)
        sort(jobs, n) == IF n = 0 THEN <<>> ELSE insert(sort(jobs, n - 1), jobs[n])
        unique_jobs == unique(collect(1, <<>>), 1, <<>>)
        sorted_jobs == sort(unique_jobs, Len(unique_jobs))
    IN  SubSeq(sorted_jobs, 1, Min(max_jobs, Len(sorted_jobs)))

\* job_data records as the search API returns them: two postings with the
\* same apply link, a javascript: link, an ftp: link given as the Google
\* link, a remote Oklahoma posting without any link, and a relocation
\* posting below $80K whose link has its scheme in capitals.
ApiListings ==
    << [job_title |-> "Senior Landman", job_apply_link |-> "https://jobs.example/1",
        job_state |-> "Oklahoma", job_description |-> "oil"],
       [job_title |-> "Landman", job_apply_link |-> "https://jobs.example/1",
        job_state |-> "Texas", job_is_remote |-> TRUE],
       [job_title |-> "Safety Manager", job_apply_link |-> "javascript:void(0)",
        job_state |-> "Oklahoma"],
       [job_title |-> "Data Analyst", job_google_link |-> "ftp://jobs.example/2",
        job_state |-> "Texas", job_max_salary |-> 90000],
       [job_title |-> "R&D Safety Coordinator", job_state |-> "Oklahoma",
        job_is_remote |-> TRUE],
       [job_title |-> "Project Manager", job_apply_link |-> "HTTPS://jobs.example/3",
        job_state |-> "Texas", job_max_salary |-> 50000] >>

\* What one search can return: no data, one or two of the records, or all
\* six.
ApiResponses ==
    {<<>>, ApiListings}
      \cup {<<ApiListings[a]>> : a \in DOMAIN ApiListings}
      \cup {<<ApiListings[a], ApiListings[b]>> : a, b \in DOMAIN ApiListings}

\* the searches that return data; the later ones return none
NumResponding == 2

(***************************************************************************)
(* The state: one shared matcher and the callers of calculate_match_score. *)
(***************************************************************************)
NumWorkers == 2
Workers == 1..NumWorkers

VARIABLES
    matcher,     \* the IntelligentJobMatcher: profile and the three tables
    pc,          \* per caller: "idle", "called", "returned" or "raised"
    job,         \* per caller: the job record passed to the call
    locals,      \* per caller: the call's local `scores` and `reasons`, and
                 \* n, the number of sub-scorers that have run
    result,      \* per caller: what the call returned, or the exception
    interleaved, \* a caller has taken a step while another was inside its call
    kept,        \* an earlier finished call, remembered for comparison
    category_match, \* the last call of _categorize_job: its arguments and result
    batch,       \* the last call of _process_and_score_jobs: arguments and outcome
    search,      \* the scheduler's daily search: its retry configuration, the
                 \* retry jobs added, the failure notifications sent and how
                 \* each run of _run_daily_job_search ended
    discovery    \* the SecureJobDiscovery: what the searches of the last
                 \* discover_all_jobs returned, and self.jobs

vars == <<matcher, pc, job, locals, result, interleaved, kept, category_match, batch, search, discovery>>

not_called == [called |-> FALSE]

no_job == [k \in {} |-> PyNone]
fresh_locals == [n |-> 0, scores |-> initial_scores, reasons |-> <<>>]
finished(w) == pc[w] \in {"returned", "raised"}

Init ==
    /\ matcher = NewMatcher(CandidateProfile)
    /\ pc = [w \in Workers |-> "idle"]
    /\ job = [w \in Workers |-> no_job]
    /\ locals = [w \in Workers |-> fresh_locals]
    /\ result = [w \in Workers |-> Raise("")]
    /\ interleaved = FALSE
    /\ kept = <<>>
    /\ category_match = not_called
    /\ batch = not_called
    /\ search = [retry_attempts |-> 3, function_attributes |-> [k \in {} |-> 0],
                 retry_jobs |-> {}, failure_notifications |-> 0, errors |-> <<>>,
                 runs |-> <<>>]
    /\ discovery = [called |-> FALSE, responses |-> <<>>, jobs |-> <<>>]

\* A caller passes job record j to calculate_match_score; the call's locals
\* are initialised (scores all 0.0, reasons empty).  With keep, the call
\* that has just finished is remembered.
Call(w, j, keep) ==
    /\ pc[w] \in {"idle", "returned", "raised"}
    /\ keep => finished(w)
    /\ pc' = [pc EXCEPT ![w] = "called"]
    /\ job' = [job EXCEPT ![w] = j]
    /\ locals' = [locals EXCEPT ![w] = fresh_locals]
    /\ result' = [result EXCEPT ![w] = Raise("")]
    /\ kept' = IF keep
               THEN <<[job |-> job[w], pc |-> pc[w], result |-> result[w],
                       scores |-> locals[w].scores, profile |-> matcher.profile]>>
               ELSE kept
    /\ UNCHANGED <<matcher, interleaved, category_match, batch, search, discovery>>

\* A call that writes its score into the job record it was given.
ScoreAnnotatingJob(w) ==
    /\ pc[w] = "called"
    /\ locals[w].n = 0
    /\ \E end \in {run_call(matcher, job[w])} :
           /\ locals' = [locals EXCEPT ![w] = [n |-> Len(score_keys), scores |-> end.scores,
                                               reasons |-> end.reasons]]
           /\ result' = [result EXCEPT ![w] = returned_or_raised(end)]
           /\ pc' = [pc EXCEPT ![w] = IF end.raised = "" THEN "returned" ELSE "raised"]
           /\ job' = [job EXCEPT ![w] = IF end.raised /= "" THEN @
                                        ELSE [k \in DOMAIN @ \cup {"match_score"} |->
                                                 IF k = "match_score" THEN PyFloat(end.final_score)
                                                 ELSE @[k]]]
    /\ UNCHANGED <<matcher, interleaved, kept, category_match, batch, search, discovery>>

\* A call that lowercases the profile's skill labels in place.
ScoreNormalisingProfile(w) ==
    /\ pc[w] = "called"
    /\ locals[w].n = 0
    /\ \E end \in {run_call(matcher, job[w])} :
           /\ locals' = [locals EXCEPT ![w] = [n |-> Len(score_keys), scores |-> end.scores,
                                               reasons |-> end.reasons]]
           /\ result' = [result EXCEPT ![w] = returned_or_raised(end)]
           /\ pc' = [pc EXCEPT ![w] = IF end.raised = "" THEN "returned" ELSE "raised"]
    /\ matcher' = [matcher EXCEPT !.profile.technical_skills =
                                      [i \in DOMAIN @ |-> lower(@[i])]]
    /\ UNCHANGED <<job, interleaved, kept, category_match, batch, search, discovery>>

\* The whole of calculate_match_score, run without interruption.
Score(w) ==
    /\ pc[w] = "called"
    /\ locals[w].n = 0
    /\ \E end \in {run_call(matcher, job[w])} :
           /\ locals' = [locals EXCEPT ![w] = [n |-> Len(score_keys), scores |-> end.scores,
                                               reasons |-> end.reasons]]
           /\ result' = [result EXCEPT ![w] = returned_or_raised(end)]
           /\ pc' = [pc EXCEPT ![w] = IF end.raised = "" THEN "returned" ELSE "raised"]
    /\ UNCHANGED <<matcher, job, interleaved, kept, category_match, batch, search, discovery>>

\* w takes a step while another caller is inside its call.
mark_interleaved(w) == interleaved \/ \E v \in Workers : v /= w /\ pc[v] = "called"

\* `reasons` kept on the matcher and shared by every call in progress.
RunSubScorerSharedReasons(w) ==
    /\ pc[w] = "called"
    /\ locals[w].n < Len(score_keys)
    /\ \E key \in {score_keys[locals[w].n + 1]} :
       \E r \in {sub_scorer(key, matcher, job[w])} :
           IF r.raised /= ""
           THEN /\ pc' = [pc EXCEPT ![w] = "raised"]
                /\ result' = [result EXCEPT ![w] = Raise(r.raised)]
                /\ locals' = [locals EXCEPT ![w].reasons = <<>>]
           ELSE /\ locals' = [v \in Workers |->
                                 IF v = w
                                 THEN [n |-> locals[w].n + 1,
                                       scores |-> [locals[w].scores EXCEPT ![key] = r.score],
                                       reasons |-> locals[w].reasons \o r.reasons]
                                 ELSE IF pc[v] = "called"
                                 THEN [locals[v] EXCEPT !.reasons = @ \o r.reasons]
                                 ELSE locals[v]]
                /\ UNCHANGED <<pc, result>>
    /\ interleaved' = mark_interleaved(w)
    /\ UNCHANGED <<matcher, job, kept, category_match, batch, search, discovery>>

\* One sub-scorer of the call (lines 85-128): its score is stored under its
\* key and its reasons are appended.
RunSubScorer(w) ==
    /\ pc[w] = "called"
    /\ locals[w].n < Len(score_keys)
    /\ \E key \in {score_keys[locals[w].n + 1]} :
       \E r \in {sub_scorer(key, matcher, job[w])} :
           IF r.raised /= ""
           THEN /\ pc' = [pc EXCEPT ![w] = "raised"]
                /\ result' = [result EXCEPT ![w] = Raise(r.raised)]
                /\ locals' = [locals EXCEPT ![w].reasons = <<>>]
           ELSE /\ locals' = [locals EXCEPT ![w] =
                                 [n |-> @.n + 1,
                                  scores |-> [@.scores EXCEPT ![key] = r.score],
                                  reasons |-> @.reasons \o r.reasons]]
                /\ UNCHANGED <<pc, result>>
    /\ interleaved' = mark_interleaved(w)
    /\ UNCHANGED <<matcher, job, kept, category_match, batch, search, discovery>>

\* The end of the call (lines 130-154): weighted sum, bonus/penalty pass,
\* cap, return.
Finish(w) ==
    /\ pc[w] = "called"
    /\ locals[w].n = Len(score_keys)
    /\ \E adjusted \in {apply_bonuses_penalties(matcher, job[w],
                                                  weighted_sum(locals[w].scores, 1))} :
           IF adjusted.raised /= ""
           THEN /\ pc' = [pc EXCEPT ![w] = "raised"]
                /\ result' = [result EXCEPT ![w] = Raise(adjusted.raised)]
                /\ locals' = [locals EXCEPT ![w].reasons = <<>>]
           ELSE /\ pc' = [pc EXCEPT ![w] = "returned"]
                /\ locals' = [locals EXCEPT ![w].reasons = @ \o adjusted.reasons]
                /\ result' = [result EXCEPT ![w] =
                                 Ok(cap_score(adjusted.score), locals[w].reasons \o adjusted.reasons)]
    /\ interleaved' = mark_interleaved(w)
    /\ UNCHANGED <<matcher, job, kept, category_match, batch, search, discovery>>

\* One call of _categorize_job(job, categories).
Categorize(j, categories) ==
    /\ category_match' = [called |-> TRUE, job |-> j, categories |-> categories,
                          match |-> categorize_job(j, categories)]
    /\ UNCHANGED <<matcher, pc, job, locals, result, interleaved, kept, batch, search, discovery>>

\* _run_daily_job_search resets search_stats before it collects jobs.
StartDailyJobSearch ==
    /\ batch.called
    /\ batch' = not_called
    /\ UNCHANGED <<matcher, pc, job, locals, result, interleaved, kept, category_match, search, discovery>>

\* The one call of _process_and_score_jobs(raw_jobs) in a daily search.
ProcessAndScoreJobs(raw_jobs, min_score) ==
    /\ ~batch.called
    /\ batch' = process_and_score_jobs(matcher, raw_jobs, min_score,
                                       process_jobs(matcher, raw_jobs, min_score, Len(raw_jobs)))
    /\ UNCHANGED <<matcher, pc, job, locals, result, interleaved, kept, category_match, search, discovery>>

\* IntelligentJobMatcher(candidate_profile): the caller, between two calls,
\* replaces its matcher by a new one and starts over with it.
Construct(candidate_profile) ==
    /\ \A w \in Workers : pc[w] /= "called"
    /\ matcher' = NewMatcher(candidate_profile)
    /\ pc' = [w \in Workers |-> "idle"]
    /\ job' = [w \in Workers |-> no_job]
    /\ locals' = [w \in Workers |-> fresh_locals]
    /\ result' = [w \in Workers |-> Raise("")]
    /\ UNCHANGED <<interleaved, kept, category_match, batch, search, discovery>>

\* ProductionJobScheduler(config_path): the configuration is loaded before
\* the scheduler runs anything.
LoadConfig(retry_attempts) ==
    /\ search.runs = <<>>
    /\ search' = [search EXCEPT !.retry_attempts = retry_attempts]
    /\ UNCHANGED <<matcher, pc, job, locals, result, interleaved, kept, category_match,
                   batch, discovery>>

\* The scheduler runs _run_daily_job_search: at the daily time or as one
\* of the retry jobs that were added.
RunDailyJobSearch(fails) ==
    /\ Len(search.runs) < MaxRuns
    /\ \E trigger \in {"daily_job_search"} \cup search.retry_jobs :
           search' = run_daily_job_search(search, trigger, fails)
    /\ UNCHANGED <<matcher, pc, job, locals, result, interleaved, kept, category_match,
                   batch, discovery>>

\* SecureJobDiscovery(): self.jobs = []
ConstructDiscovery ==
    /\ discovery' = [called |-> FALSE, responses |-> <<>>, jobs |-> <<>>]
    /\ UNCHANGED <<matcher, pc, job, locals, result, interleaved, kept, category_match,
                   batch, search>>

\* discover_all_jobs on a new SecureJobDiscovery: the first searches return
\* `responding`, the others no data.
DiscoverAllJobs(responding) ==
    /\ ~discovery.called
    /\ \E responses \in {[i \in 1..NumPrioritySearches |->
                              IF i <= Len(responding) THEN responding[i] ELSE <<>>]} :
           discovery' = [called |-> TRUE, responses |-> responses,
                         jobs |-> discover_all_jobs(responses)]
    /\ UNCHANGED <<matcher, pc, job, locals, result, interleaved, kept, category_match,
                   batch, search>>

\* Sequential use: one caller, each call run as a whole.
Next ==
    \/ \E j \in Jobs, keep \in BOOLEAN : Call(1, j, keep)
    \/ Score(1)

Spec == Init /\ [][Next]_vars

\* Concurrent use: every caller steps through its own call on the shared
\* matcher, in any interleaving.
NextConc ==
    \/ \E w \in Workers, j \in BatchJobs : Call(w, j, FALSE)
    \/ \E w \in Workers : RunSubScorer(w)
    \/ \E w \in Workers : Finish(w)

SpecConc == Init /\ [][NextConc]_vars

\* The report generator classifies jobs against a categories table.
NextCategories == \E j \in CategoryJobs, categories \in CategoryTables : Categorize(j, categories)

SpecCategories == Init /\ [][NextCategories]_vars

\* The scheduler's daily searches, one batch of raw jobs each.
NextBatch ==
    \/ StartDailyJobSearch
    \/ \E raw_jobs \in RawJobBatches, min_score \in MinimumMatchScores :
           ProcessAndScoreJobs(raw_jobs, min_score)

SpecBatch == Init /\ [][NextBatch]_vars

\* Sequential use with matchers constructed for different profiles.
NextProfiles ==
    \/ \E candidate_profile \in Profiles : Construct(candidate_profile)
    \/ \E j \in ProfileJobs, keep \in BOOLEAN : Call(1, j, keep)
    \/ Score(1)

SpecProfiles == Init /\ [][NextProfiles]_vars

\* Sequential use on records that single out one sub-scorer or adjustment.
NextScorers ==
    \/ \E j \in ScorerJobs : Call(1, j, FALSE)
    \/ Score(1)

SpecScorers == Init /\ [][NextScorers]_vars

\* The scheduler's runs of the daily search, failing or not.
NextRetry ==
    \/ \E retry_attempts \in RetryAttempts : LoadConfig(retry_attempts)
    \/ \E fails \in BOOLEAN : RunDailyJobSearch(fails)

SpecRetry == Init /\ [][NextRetry]_vars

\* Job discoveries, each on a new SecureJobDiscovery.
NextDiscovery ==
    \/ ConstructDiscovery
    \/ \E responding \in [1..NumResponding -> ApiResponses] : DiscoverAllJobs(responding)

SpecDiscovery == Init /\ [][NextDiscovery]_vars

(***************************************************************************)
(* Properties                                                              *)
(***************************************************************************)
has_kept == kept /= <<>>
kept_returned == has_kept /\ kept[1].pc = "returned"
full_score == 100 * Unit

\* C1: every final score returned by calculate_match_score satisfies
\* 0.0 <= final_score <= 1.0.
C1_ScoreWithinUnitRange ==
    \A w \in Workers :
        pc[w] = "returned" => 0 <= result[w].score /\ result[w].score <= full_score

\* C2: calculate_match_score never raises, whatever the job record holds
\* (a key holding None included).
C2_NeverRaises == \A w \in Workers : pc[w] /= "raised"

only_title_and_company(j) ==
    /\ DOMAIN j = {"title", "company"}
    /\ j.title.t = "str"
    /\ j.company.t = "str"

\* C3: a job record holding only a title and a company is scored without
\* error, with location-fit 0.2 and salary-fit 0.5.
C3_MinimalRecordFallbacks ==
    \A w \in Workers :
        finished(w) /\ only_title_and_company(job[w])
            => /\ pc[w] = "returned"
               /\ locals[w].scores.location_fit = Frac(2, 10)
               /\ locals[w].scores.salary_fit = Frac(5, 10)

C3_Witness ==
    \E w \in Workers :
        /\ pc[w] = "returned"
        /\ only_title_and_company(job[w])
        /\ job[w].company.v = "Acme Corp"

\* C4: a call with the same job record as an earlier call on the same
\* matcher ends the same way, with the same final score and the same
\* reasons, whatever calls were made in between.
C4_Idempotent ==
    \A w \in Workers :
        finished(w) /\ has_kept /\ kept[1].job = job[w]
            => kept[1].pc = pc[w] /\ kept[1].result = result[w]

C4_Witness ==
    \E w \in Workers :
        /\ pc[w] = "returned"
        /\ has_kept
        /\ kept[1].job = job[w]
        /\ Len(result[w].reasons) > Len(score_keys)

\* C5: a scoring call changes neither the matcher (profile and tables) nor
\* the job record it was given, nor what earlier calls returned; it only
\* produces its own result.
C5_ScoringFrame ==
    [][\A w \in Workers :
          pc[w] = "called" /\ pc'[w] \in {"returned", "raised"}
              => /\ matcher' = matcher
                 /\ job' = job
                 /\ kept' = kept
                 /\ \A v \in Workers \ {w} : result'[v] = result[v]]_vars

C5_Witness ==
    \E w \in Workers :
        /\ pc[w] = "returned"
        /\ job[w] = AcceptableTestJob
        /\ matcher = NewMatcher(CandidateProfile)

\* What each job of the batch gets when it is scored alone on a new matcher.
scored_alone == [j \in BatchJobs |-> calculate_match_score(NewMatcher(CandidateProfile), j)]

\* C6: under every interleaving of concurrent calls on the shared matcher,
\* each call ends with the result its job gets when scored alone.
C6_ConcurrentCallsIndependent ==
    \A w \in Workers :
        finished(w)
            => /\ result[w] = scored_alone[job[w]]
               /\ (pc[w] = "raised") = (result[w].raised /= "")

C6_Witness ==
    /\ interleaved
    /\ \E v, w \in Workers : pc[v] = "returned" /\ pc[w] = "raised"

titled(j, t) == "title" \in DOMAIN j /\ j.title = PyStr(t)

same_but_title(a, b) ==
    /\ DOMAIN a = DOMAIN b
    /\ \A k \in DOMAIN a \ {"title"} : a[k] = b[k]

\* The kept call scored the Vice President job and caller w the job that
\* differs from it in the title alone, Operations Coordinator.
dominance_pair(w) ==
    /\ pc[w] = "returned"
    /\ kept_returned
    /\ titled(kept[1].job, VicePresident)
    /\ titled(job[w], Coordinator)
    /\ same_but_title(kept[1].job, job[w])

\* C7 as stated: the Vice President job scores at least 0.40 lower than the
\* otherwise identical Operations Coordinator job.
C7_PenaltyDominance ==
    \A w \in Workers :
        dominance_pair(w) => result[w].score - kept[1].result.score >= 40 * Unit

\* C7 as amended: the Vice President job scores strictly lower than the
\* otherwise identical Operations Coordinator job, and more than 0.39 lower
\* whenever the Coordinator job's score is below the 1.0 cap.
C7_PenaltyGap ==
    \A w \in Workers :
        dominance_pair(w)
            => /\ kept[1].result.score < result[w].score
               /\ result[w].score < full_score
                     => result[w].score - kept[1].result.score > 39 * Unit

C7_Witness ==
    \E w \in Workers :
        /\ dominance_pair(w)
        /\ result[w].score - kept[1].result.score < 40 * Unit
        /\ result[w].score < full_score

salary_70_to_90(j) ==
    /\ {"salary_min", "salary_max"} \subseteq DOMAIN j
    /\ j.salary_min = PyInt(70000)
    /\ j.salary_max = PyInt(90000)

targets_65_to_150 == matcher.profile.salary_range = <<65000, 150000>>

\* C8 as stated: salary 70000-90000 against the target range (65000,
\* 150000) gets a salary-fit sub-score above 0.5.
C8_SalaryOverlapAboveHalf ==
    \A w \in Workers :
        pc[w] = "returned" /\ salary_70_to_90(job[w]) /\ targets_65_to_150
            => locals[w].scores.salary_fit > Frac(5, 10)

\* C8 as amended: salary 70000-90000 against the target range (65000,
\* 150000) gets the salary-fit sub-score 1.2 * 20000 / 85000 = 24/85, which
\* is below 0.5.
C8_SalaryOverlapValue ==
    \A w \in Workers :
        pc[w] = "returned" /\ salary_70_to_90(job[w]) /\ targets_65_to_150
            => /\ locals[w].scores.salary_fit = Frac(24, 85)
               /\ locals[w].scores.salary_fit < Frac(5, 10)

C8_Witness ==
    \E w \in Workers :
        pc[w] = "returned" /\ salary_70_to_90(job[w]) /\ targets_65_to_150

\* C9: adding one high-value keyword to the empty description of a job
\* strictly increases its technical-skills sub-score.
C9_KeywordRaisesTechnicalScore ==
    \A w \in Workers :
        /\ pc[w] = "returned"
        /\ kept_returned
        /\ kept[1].job \in KeywordJobs
        /\ kept[1].job.description = PyStr("")
        /\ job[w] \in KeywordJobs
        /\ job[w].description.v \in HighValueKeywords
        => locals[w].scores.technical_skills > kept[1].scores.technical_skills

landman_reason == "Role evolution match: Drilling Consultant -> landman"

\* C10: the Senior Landman job at Devon Energy gets the role-transition
\* sub-score 0.95, through the landman entry of the role-evolution map.
C10_LandmanRoleTransition ==
    \A w \in Workers :
        pc[w] = "returned" /\ job[w] = LandmanJob
            => /\ locals[w].scores.role_transition = Frac(95, 100)
               /\ \E i \in DOMAIN result[w].reasons : result[w].reasons[i] = landman_reason

C10_Witness ==
    \E w \in Workers :
        /\ pc[w] = "returned"
        /\ job[w] = LandmanJob
        /\ locals[w].scores.role_transition > Frac(3, 10)

\* C11 as stated: the Senior Landman job at Devon Energy gets a final score
\* strictly above 0.75.
C11_LandmanAboveThreeQuarters ==
    \A w \in Workers :
        pc[w] = "returned" /\ job[w] = LandmanJob => result[w].score > 75 * Unit

\* C11 as amended: the Senior Landman job at Devon Energy gets the final
\* score 563/850 (about 0.6624), which is below 0.75.
C11_LandmanFinalScore ==
    \A w \in Workers :
        pc[w] = "returned" /\ job[w] = LandmanJob
            => /\ result[w].score = 100 * Frac(563, 850)
               /\ result[w].score < 75 * Unit

C11_Witness ==
    \E w \in Workers :
        /\ pc[w] = "returned"
        /\ job[w] = LandmanJob
        /\ result[w].score > 65 * Unit

executive_penalty ==
    "MAJOR PENALTY: Executive/senior role - overqualification for field-to-tech transition"
high_salary_penalty ==
    "MAJOR PENALTY: High-salary executive role inappropriate for experience level"

occurrences(reasons, reason) == Cardinality({i \in DOMAIN reasons : reasons[i] = reason})

\* C12: the Chief Financial Officer job triggers the executive-title penalty
\* and the high-salary penalty once each, and its final score is clamped to
\* the low end of the range: 0.0 <= final_score <= 0.10.
C12_ExecutiveScenario ==
    \A w \in Workers :
        pc[w] = "returned" /\ job[w] = ExecutiveJob
            => /\ occurrences(result[w].reasons, executive_penalty) = 1
               /\ occurrences(result[w].reasons, high_salary_penalty) = 1
               /\ 0 <= result[w].score
               /\ result[w].score <= 10 * Unit

\* The score the claim gives a category: 2 for every subcategory word found
\* in the job text (a word counts once for each subcategory title it occurs
\* in) plus 1 for every category keyword found.
stated_score(category, text) ==
    2 * Cardinality({p \in {<<a, b>> : a \in DOMAIN subcategories_of(category.data),
                                      b \in 1..Len(text)} :
                        /\ p[2] \in DOMAIN split(lower(subcategories_of(category.data)[p[1]]))
                        /\ contains(split(lower(subcategories_of(category.data)[p[1]]))[p[2]], text)})
    + Cardinality({k \in DOMAIN get_category_keywords(category.name) :
                        contains(lower(get_category_keywords(category.name)[k]), text)})

classified_text == category_job_text(category_match.job)

\* The positions of the table whose category the match names.
chosen ==
    {i \in DOMAIN category_match.categories :
        category_match.categories[i].name = category_match.match.category}

\* C13: each category scores 2.0 per subcategory word found plus 1.0 per
\* keyword found; the category returned has the highest score, which is
\* above zero, with confidence min(score/10*100, 95); when no category
\* scores above zero the result is "General", confidence 50, salary range
\* (50000, 80000).
C13_CategoryClassification ==
    category_match.called =>
        /\ category_match.match.raised = ""
        /\ IF \E i \in DOMAIN category_match.categories :
                   stated_score(category_match.categories[i], classified_text) > 0
           THEN \E i \in chosen :
                   /\ stated_score(category_match.categories[i], classified_text) > 0
                   /\ \A k \in DOMAIN category_match.categories :
                          stated_score(category_match.categories[k], classified_text)
                              <= stated_score(category_match.categories[i], classified_text)
                   /\ category_match.match.category_confidence =
                          Min(10 * stated_score(category_match.categories[i], classified_text), 95)
                   /\ category_match.match.category_data = category_match.categories[i].data
           ELSE /\ category_match.match.category = "General"
                /\ category_match.match.category_confidence = 50
                /\ category_match.match.category_data.salary_range = <<50000, 80000>>

\* A match whose confidence was capped, and one that fell back to General.
C13_Witness ==
    /\ category_match.called
    /\ Len(category_match.categories) = Cardinality(Categories)
    /\ category_match.match.category_confidence = 95

\* C14: when several categories share the highest nonzero score, the one
\* that comes first in the table is returned.
C14_FirstOfTiedCategories ==
    category_match.called /\ chosen /= {} =>
        \A i \in chosen : \A k \in 1..(i - 1) :
            stated_score(category_match.categories[k], classified_text)
                < stated_score(category_match.categories[i], classified_text)

C14_Witness ==
    /\ category_match.called
    /\ \E i \in chosen : \E k \in DOMAIN category_match.categories :
          /\ k > i
          /\ stated_score(category_match.categories[k], classified_text)
                 = stated_score(category_match.categories[i], classified_text)

technical_keywords == <<"python", "automation", "technical", "data", "programming">>

\* An executive title, a salary_max above 200000 and no technical keyword.
overqualified_high_salary(j) ==
    /\ lowers(j, "title")
    /\ any_in(overqualified_keywords, lower_of(j, "title"))
    /\ "salary_max" \in DOMAIN j
    /\ j.salary_max.t = "int"
    /\ j.salary_max.v > 200000
    /\ ~any_in(technical_keywords, lower(get_job_text(j)))

\* C15 as stated: every job with an executive title and a salary_max above
\* 200000 and no technical keyword gets a final score strictly below 0.5,
\* whatever bonuses it earns.
C15_OverqualifiedBelowThreshold ==
    \A w \in Workers :
        pc[w] = "returned" /\ overqualified_high_salary(job[w])
            => result[w].score < 50 * Unit

\* C15 as amended: every such job gets both major penalties once each, so
\* its final score is at most the weighted sum of its sub-scores minus 0.45;
\* it is strictly below 0.5 whenever that weighted sum is below 0.95.
C15_OverqualifiedScoreBound ==
    \A w \in Workers :
        pc[w] = "returned" /\ overqualified_high_salary(job[w])
            => /\ occurrences(result[w].reasons, executive_penalty) = 1
               /\ occurrences(result[w].reasons, high_salary_penalty) = 1
               /\ result[w].score <= weighted_sum(locals[w].scores, 1) - 45 * Unit
               /\ (weighted_sum(locals[w].scores, 1) < 95 * Unit
                      => result[w].score < 50 * Unit)

C15_Witness ==
    \E w \in Workers :
        /\ pc[w] = "returned"
        /\ overqualified_high_salary(job[w])
        /\ job[w] = ChiefLandmanJob
        /\ result[w].score >= 50 * Unit

major_okc_employers == <<"chesapeake", "devon", "continental", "oxy", "sandridge">>
okc_area == <<"oklahoma city", "okc", "edmond", "norman">>

salary_absent_or_int(j, key) == key \in DOMAIN j => j[key].t = "int"

\* A safety title at a listed employer in the Oklahoma City area, with direct
\* oil-and-gas vocabulary in the text and no penalty triggered.
acceptable(j) ==
    /\ \A key \in {"title", "company", "location", "description"} :
           key \in DOMAIN j /\ j[key].t = "str"
    /\ salary_absent_or_int(j, "salary_min")
    /\ salary_absent_or_int(j, "salary_max")
    /\ contains("safety", lower_of(j, "title"))
    /\ any_in(major_okc_employers, lower_of(j, "company"))
    /\ any_in(okc_area, lower_of(j, "location"))
    /\ any_in(oil_gas_keywords, lower(get_job_text(j)))
    /\ \A i \in DOMAIN adjustment_rules(matcher, j) :
           adjustment_rules(matcher, j)[i].applies => adjustment_rules(matcher, j)[i].delta > 0

\* C16: every job with "safety" in its title, at a listed major Oklahoma City
\* employer, located in the Oklahoma City area, with direct oil-and-gas
\* vocabulary and no penalty triggered, gets a final score of at least 0.5,
\* whatever its salary range.
C16_AcceptableJobsPass ==
    \A w \in Workers :
        finished(w) /\ acceptable(job[w])
            => pc[w] = "returned" /\ result[w].score >= 50 * Unit

C16_Witness ==
    \E w \in Workers :
        /\ pc[w] = "returned"
        /\ acceptable(job[w])
        /\ locals[w].scores.salary_fit = 0
        /\ result[w].score < 60 * Unit

RECURSIVE scorings(_)
\* How the scoring calls on the first n jobs of the batch end.
scorings(n) ==
    IF n = 0 THEN <<>>
    ELSE Append(scorings(n - 1), calculate_match_score(matcher, batch.input[n]))

scored_without_error(ends, i) == ends[i].raised = ""
reaches_minimum(ends, i) == scored_without_error(ends, i) /\ ends[i].score >= batch.min_score

\* The positions of the batch that reach the minimum, in input order.
passing(ends) ==
    SelectSeq([i \in 1..Len(batch.input) |-> i], LAMBDA i : reaches_minimum(ends, i))

as_given(j) == [k \in DOMAIN j \ {"match_score", "match_reasons"} |-> j[k]]

returned_exactly(ends, expected) ==
    /\ Len(batch.processed_jobs) = Len(expected)
    /\ \A k \in DOMAIN expected :
           /\ as_given(batch.processed_jobs[k]) = batch.input[expected[k]]
           /\ batch.processed_jobs[k].match_score = PyFloat(ends[expected[k]].score)

batch_isolated(ends) ==
    /\ returned_exactly(ends, passing(ends))
    /\ \A i \in DOMAIN batch.input :
           scored_without_error(ends, i) <=> "match_score" \in DOMAIN batch.raw_jobs[i]
    /\ batch.high_match_jobs =
           Cardinality({k \in DOMAIN batch.processed_jobs :
                           batch.processed_jobs[k].match_score.v >= 80 * Unit})

\* C17: a job whose scoring raises is skipped and every later job is still
\* processed; the returned list holds, in input order, exactly the jobs that
\* scored without error and reached minimum_match_score, and high_match_jobs
\* is the number of returned jobs with a score of at least 0.8.
C17_BatchIsolation == batch.called => batch_isolated(scorings(Len(batch.input)))

raise_then_pass(ends) ==
    /\ \E i, k \in DOMAIN batch.input :
           i < k /\ ~scored_without_error(ends, i) /\ reaches_minimum(ends, k)
    /\ \E i \in DOMAIN batch.input : scored_without_error(ends, i) /\ ~reaches_minimum(ends, i)

C17_Witness ==
    /\ batch.called
    /\ raise_then_pass(scorings(Len(batch.input)))
    /\ batch.processed_jobs /= <<>>
    /\ batch.high_match_jobs < Len(batch.processed_jobs)

\* The reasons of the nine sub-scorers in the order the claim names them.
sub_scorer_reasons(j) ==
    score_technical_skills(matcher, j).reasons
      \o score_industry_experience(matcher, j).reasons
      \o score_role_transition(matcher, j).reasons
      \o score_location_fit(matcher, j).reasons
      \o score_salary_fit(matcher, j).reasons
      \o score_remote_compatibility(matcher, j).reasons
      \o score_company_fit(matcher, j).reasons
      \o score_experience_level(matcher, j).reasons
      \o score_growth_potential(matcher, j).reasons

\* The descriptions of the triggered adjustments in application order.
triggered_descriptions(rules) ==
    [i \in DOMAIN SelectSeq(rules, LAMBDA r : r.applies) |->
        SelectSeq(rules, LAMBDA r : r.applies)[i].reason]

reasons_in_order(reasons, from_scorers, rules) ==
    /\ reasons = from_scorers \o triggered_descriptions(rules)
    /\ \A i \in DOMAIN rules :
           occurrences(SubSeq(reasons, Len(from_scorers) + 1, Len(reasons)), rules[i].reason)
               = IF rules[i].applies THEN 1 ELSE 0

\* C18: the reasons a scoring call returns are the reasons of the nine
\* sub-scorers (technical, industry, role transition, location, salary,
\* remote, company, experience, growth) in that order, followed by the
\* descriptions of the triggered bonuses and penalties in application order,
\* one entry for each triggered adjustment and none for an untriggered one.
C18_ReasonsInEvaluationOrder ==
    \A w \in Workers :
        pc[w] = "returned"
            => reasons_in_order(result[w].reasons, sub_scorer_reasons(job[w]),
                                adjustment_rules(matcher, job[w]))

C18_Witness ==
    \E w \in Workers :
        /\ pc[w] = "returned"
        /\ occurrences(result[w].reasons, executive_penalty) = 1
        /\ occurrences(result[w].reasons, "BONUS: Major Oklahoma City employer") = 1
        /\ Len(result[w].reasons) > Len(score_keys) + 4

physical_penalty == "PENALTY: Physical demands incompatible with ankle recovery"

differ_only_in_flag(p, q) ==
    /\ p.physical_limitations /= q.physical_limitations
    /\ [p EXCEPT !.physical_limitations = q.physical_limitations] = q

has_physical_keyword(j) == any_in(physical_keywords, lower(get_job_text(j)))

\* The bonuses and penalties other than the physical-demand one, in hundredths.
other_deltas(rules) ==
    sum_deltas([i \in DOMAIN rules |->
                   [rules[i] EXCEPT !.applies = @ /\ rules[i].reason /= physical_penalty]], 1)

\* C19: two profiles that differ only in physical_limitations give any job
\* the same final score and reasons, and the -0.20 physical-demand penalty
\* is applied exactly when the job text contains a physical-demand keyword.
C19_PhysicalPenaltyIgnoresFlag ==
    \A w \in Workers :
        /\ finished(w) /\ has_kept /\ kept[1].job = job[w]
              /\ differ_only_in_flag(kept[1].profile, matcher.profile)
            => kept[1].pc = pc[w] /\ kept[1].result = result[w]
        /\ pc[w] = "returned"
            => /\ occurrences(result[w].reasons, physical_penalty)
                    = IF has_physical_keyword(job[w]) THEN 1 ELSE 0
               /\ result[w].score =
                    cap_score(weighted_sum(locals[w].scores, 1)
                              + (other_deltas(adjustment_rules(matcher, job[w]))
                                 + IF has_physical_keyword(job[w]) THEN -20 ELSE 0) * Unit)

C19_Witness ==
    \E w \in Workers :
        /\ pc[w] = "returned"
        /\ has_kept
        /\ kept[1].job = job[w]
        /\ differ_only_in_flag(kept[1].profile, matcher.profile)
        /\ ~matcher.profile.physical_limitations
        /\ has_physical_keyword(job[w])
        /\ occurrences(result[w].reasons, physical_penalty) = 1

within_unit_range(r) == r.raised = "" /\ 0 <= r.score /\ r.score <= Unit

\* C20: each of the nine sub-scorers returns a score in [0,1] without
\* raising, for every job record and every profile of the data model, a
\* profile with a zero-width salary_range or with no technical skills
\* included.
C20_SubScorersTotal ==
    \A w \in Workers :
        pc[w] /= "idle"
            => \A i \in DOMAIN score_keys :
                   within_unit_range(sub_scorer(score_keys[i], matcher, job[w]))

\* A salary bound is specified when the record holds a figure other than 0.
specified(j, key) == key \in DOMAIN j /\ j[key].t = "int" /\ j[key].v /= 0
salary_well_formed(j) ==
    \A key \in {"salary_min", "salary_max"} : key \in DOMAIN j => j[key].t = "int"

inferred_min(j) ==
    IF specified(j, "salary_min") THEN j.salary_min.v ELSE (j.salary_max.v * 8) \div 10
inferred_max(j) ==
    IF specified(j, "salary_max") THEN j.salary_max.v ELSE (j.salary_min.v * 13) \div 10

\* The salary-fit the claim states, for a job range and a target range.
stated_salary_fit(job_min, job_max, target_min, target_max) ==
    IF Max(job_min, target_min) <= Min(job_max, target_max)
    THEN Min(Frac(12 * (Min(job_max, target_max) - Max(job_min, target_min)),
                  10 * (target_max - target_min)), Unit)
    ELSE IF job_min > target_max THEN Unit
    ELSE IF target_min - job_max <= 10000 THEN Frac(6, 10)
    ELSE Frac(2, 10)

\* C21: salary-fit is 0.5 when neither bound is specified; otherwise, on the
\* inferred range (missing max = min * 1.3, missing min = max * 0.8), it is
\* min(1.0, 1.2 * overlap_width / target_width) when the ranges intersect,
\* 1.0 when job_min exceeds the target maximum, else 0.6 when
\* target_min - job_max <= 10000 and 0.2 when the gap is larger.
C21_SalaryFitFunction ==
    \A w \in Workers :
        pc[w] = "returned" /\ salary_well_formed(job[w])
            => locals[w].scores.salary_fit =
                 IF ~specified(job[w], "salary_min") /\ ~specified(job[w], "salary_max")
                 THEN Frac(5, 10)
                 ELSE stated_salary_fit(inferred_min(job[w]), inferred_max(job[w]),
                                        matcher.profile.salary_range[1],
                                        matcher.profile.salary_range[2])

C21_Witness ==
    \E w \in Workers :
        /\ pc[w] = "returned"
        /\ specified(job[w], "salary_min")
        /\ ~specified(job[w], "salary_max")
        /\ locals[w].scores.salary_fit > Frac(2, 10)
        /\ locals[w].scores.salary_fit < Frac(5, 10)

names_twenty_years(j) == any_in(<<"20+ years", "twenty years">>, lower(get_job_text(j)))

\* C22: whenever the job text contains "20+ years" or "twenty years", the
\* experience-level sub-score is 1.0, whatever seniority tier the title is in.
C22_TwentyYearsOverridesTier ==
    \A w \in Workers :
        pc[w] = "returned" /\ names_twenty_years(job[w])
            => locals[w].scores.experience_level = Unit

role_targets == matcher.role_evolution_map.drilling_consultant

\* The job title contains one of the target's title keywords and at least
\* two of its description keywords occur in the job text.
meets_target(target, j) ==
    /\ \E k \in DOMAIN target.title_keywords :
           contains(target.title_keywords[k], lower_of(j, "title"))
    /\ Cardinality({k \in DOMAIN target.description_keywords :
                       contains(target.description_keywords[k], lower(get_job_text(j)))}) >= 2

met_targets(j) == {i \in DOMAIN role_targets : meets_target(role_targets[i], j)}

\* C23 as stated: the role-transition score is a target's fixed score only
\* when the job meets that target, and every job that meets no target gets
\* the base score 0.3.
C23_RoleTransitionBaseOtherwise ==
    \A w \in Workers :
        pc[w] = "returned"
            => IF met_targets(job[w]) = {}
               THEN locals[w].scores.role_transition = Frac(3, 10)
               ELSE \E i \in met_targets(job[w]) :
                        locals[w].scores.role_transition = role_targets[i].score

\* The score of a job that meets no target of the map: the first that
\* applies of four title-specific transitions, else the base 0.3.
title_transition(title, text) ==
    IF contains("landman", title) /\ any_in(<<"lease", "contract", "mineral", "rights">>, text)
    THEN Frac(95, 100)
    ELSE IF /\ contains("data analyst", title)
            /\ any_in(<<"operational", "field", "drilling", "production">>, text)
    THEN Frac(85, 100)
    ELSE IF contains("safety", title) THEN Frac(90, 100)
    ELSE IF contains("automation", title) \/ contains("automation", text) THEN Frac(80, 100)
    ELSE Frac(3, 10)

\* C23 as amended: a job that meets a target of the map gets the fixed score
\* of the first target it meets; a job that meets none gets 0.95 for a
\* landman title with lease/contract/mineral/rights in the text, else 0.85
\* for a data analyst title with operational/field/drilling/production, else
\* 0.90 for "safety" in the title, else 0.80 for "automation" in the title or
\* text, and only otherwise the base score 0.3.
C23_RoleTransitionWithTitleTransitions ==
    \A w \in Workers :
        pc[w] = "returned"
            => locals[w].scores.role_transition =
                 IF met_targets(job[w]) /= {}
                 THEN role_targets[CHOOSE i \in met_targets(job[w]) :
                                      \A k \in met_targets(job[w]) : i <= k].score
                 ELSE title_transition(lower_of(job[w], "title"), lower(get_job_text(job[w])))

C23_Witness ==
    \E w \in Workers :
        /\ pc[w] = "returned"
        /\ met_targets(job[w]) = {}
        /\ job[w].title = PyStr("Safety Officer")
        /\ locals[w].scores.role_transition = Frac(90, 100)

in_text_or_company(kws, j) ==
    \E k \in DOMAIN kws :
        contains(kws[k], lower(get_job_text(j))) \/ contains(kws[k], lower_of(j, "company"))

\* The value of the first matching industry tier; 0.0 when none matches.
tier_value(j) ==
    IF in_text_or_company(oil_gas_keywords, j) THEN Frac(9, 10)
    ELSE IF in_text_or_company(<<"energy", "utility", "power", "renewable">>, j) THEN Frac(7, 10)
    ELSE IF any_in(<<"industrial", "manufacturing", "operations", "plant", "facility">>,
                   lower(get_job_text(j)))
    THEN Frac(5, 10)
    ELSE IF any_in(<<"operational", "field", "technical", "systems">>, lower(get_job_text(j)))
    THEN Frac(4, 10)
    ELSE 0

has_bridge_keyword(j) ==
    \E k \in DOMAIN build_industry_bridges :
        contains(build_industry_bridges[k], lower(get_job_text(j)))

\* C24: the industry sub-score is the value of the first matching tier in
\* the order direct oil-and-gas (0.9), energy/utility (0.7),
\* industrial/manufacturing (0.5), general operational/technical (0.4), and
\* 0.0 when none matches; with a bridge keyword in the text it is
\* max(tier value, 0.6): never lower than the tier value, and at least 0.6.
C24_IndustryTiersAndBridge ==
    \A w \in Workers :
        pc[w] = "returned"
            => IF has_bridge_keyword(job[w])
               THEN /\ locals[w].scores.industry_experience >= tier_value(job[w])
                    /\ locals[w].scores.industry_experience >= Frac(6, 10)
                    /\ locals[w].scores.industry_experience \in {tier_value(job[w]), Frac(6, 10)}
               ELSE locals[w].scores.industry_experience = tier_value(job[w])

C24_Witness ==
    \E w \in Workers :
        /\ pc[w] = "returned"
        /\ has_bridge_keyword(job[w])
        /\ tier_value(job[w]) = Frac(9, 10)
        /\ locals[w].scores.industry_experience = Frac(9, 10)

at_home(j, profile) ==
    /\ "location" \in DOMAIN j
    /\ j.location.t = "str"
    /\ lower(j.location.v) = lower(profile.location)

\* C25: location-fit is computed against the profile's home location: for
\* any profile, a job whose location is the profile's location scores 1.0.
C25_LocationFitFollowsProfile ==
    \A w \in Workers :
        pc[w] = "returned" /\ at_home(job[w], matcher.profile)
            => locals[w].scores.location_fit = Unit

junior_penalty == "PENALTY: Role significantly below experience level"

\* C26: the -0.15 junior-role penalty is applied exactly once whenever the
\* job title contains a junior, entry-level or intern keyword, and is not
\* applied to a title that contains none of them.
C26_JuniorRolePenalty ==
    \A w \in Workers :
        pc[w] = "returned"
            => occurrences(result[w].reasons, junior_penalty)
                 = IF any_in(<<"junior", "entry-level", "intern">>, lower_of(job[w], "title"))
                   THEN 1 ELSE 0

\* the deltas of the nine adjustments, in hundredths
fixed_deltas == <<15, 10, 5, -20, -15, -40, -35, -25, -10>>

\* the nine rules taken from each starting point onwards, and backwards
rule_orders ==
    {[i \in 1..9 |-> ((i + k - 1) % 9) + 1] : k \in 0..8}
      \cup {[i \in 1..9 |-> 9 - ((i + k - 1) % 9)] : k \in 0..8}

RECURSIVE apply_in_order(_, _, _, _)
\* the running score after the rules order[i..9] have been applied to score
apply_in_order(rules, order, i, score) ==
    IF i > Len(order) THEN score
    ELSE apply_in_order(rules, order, i + 1,
                        IF rules[order[i]].applies
                        THEN score + fixed_deltas[order[i]] * Unit ELSE score)

weights_total == weighted_sum([k \in DOMAIN initial_scores |-> 1], 1)

\* C28: the nine weights are 0.25, 0.20, 0.20, 0.10, 0.10, 0.05, 0.05, 0.03
\* and 0.02 and sum to exactly 1, so the weighted base score of every call
\* that reaches the bonus/penalty pass lies in [0,1].
C28_BaseScoreInUnitRange ==
    /\ {weights[k] : k \in DOMAIN weights} = {25, 20, 10, 5, 3, 2}
    /\ weights_total = 100
    /\ \A w \in Workers :
           pc[w] = "returned"
               => \E base \in {weighted_sum(locals[w].scores, 1)} :
                      0 <= base /\ base <= 100 * Unit

\* a returned call whose base score is within 0.05 of the top of the range
C28_Witness ==
    \E w \in Workers :
        /\ pc[w] = "returned"
        /\ weighted_sum(locals[w].scores, 1) >= 95 * Unit

\* C29: when a run of the daily search fails, a retry job is scheduled as
\* long as fewer than retry_attempts retries have been, and a failure
\* notification is sent once they are exhausted: at most retry_attempts
\* retry jobs are added, and a failed run leaves a retry job or a failure
\* notification behind.
C29_FailedSearchRetriedOrNotified ==
    /\ Cardinality(search.retry_jobs) <= search.retry_attempts
    /\ (search.runs /= <<>> /\ search.runs[Len(search.runs)] /= "completed")
           => (search.retry_jobs /= {} \/ search.failure_notifications > 0)

\* the URL of the posting a job_data record refers to
source_url(job_data) ==
    get(job_data, "job_apply_link", get(job_data, "job_google_link", "#"))

RECURSIVE discovered_from(_, _)
\* the job_data records the searches i.. have turned into listings
discovered_from(responses, i) ==
    IF i > Len(responses) THEN <<>>
    ELSE SubSeq(responses[i], 1, Min(5, Len(responses[i]))) \o discovered_from(responses, i + 1)

high_first_then_score(jobs) ==
    \A i, k \in DOMAIN jobs :
        i < k => \/ jobs[i].obtainability = "High" /\ jobs[k].obtainability /= "High"
                 \/ /\ (jobs[i].obtainability = "High") = (jobs[k].obtainability = "High")
                    /\ jobs[i].match_score >= jobs[k].match_score

\* C30: discover_all_jobs returns at most max_jobs listings with pairwise
\* distinct URLs, High-obtainability first and then by descending match
\* score, and deduplication drops a listing only when an earlier one refers
\* to the same source posting URL: as many listings are kept as the
\* discovered postings have distinct source URLs.
C30_DeduplicationBySourceUrl ==
    discovery.called
        => \E found \in {discovered_from(discovery.responses, 1)} :
               /\ Len(discovery.jobs) <= max_jobs
               /\ \A i, k \in DOMAIN discovery.jobs :
                      i /= k => discovery.jobs[i].url /= discovery.jobs[k].url
               /\ high_first_then_score(discovery.jobs)
               /\ Len(found) <= max_jobs
                      => Len(discovery.jobs)
                           = Cardinality({source_url(found[k]) : k \in DOMAIN found})

====
